---- MODULE Spec2Model ----
(***************************************************************************)
(* Model of the box/line layout solver of azul (azul-core/src/ui_solver.rs) *)
(*                                                                         *)
(* f32 quantities are modelled as exact fixed-point numbers: an integer n  *)
(* stands for the value n / Scale.  The only non-integral factor the code  *)
(* multiplies by is 0.5, so with Scale = 2^MaxAligns every value reachable *)
(* within MaxAligns alignment calls is represented exactly.                *)
(***************************************************************************)
EXTENDS Integers, Sequences, FiniteSets, TLC

VARIABLES
    layout,     \* the InlineTextLayout under test
    pre,        \* the InlineTextLayout as it was before the last call
    rect,       \* the PositionedRectangle under test
    ovf,        \* the DirectionalOverflowInfo under test
    op,         \* name of the last operation called
    arg,        \* argument(s) of the last operation
    ret,        \* return value of the last operation
    calls,      \* number of mutating calls made so far
    scrolled,   \* the ScrolledNodes registry of the current layout pass
    scroll_counter, \* the per-pipeline counter ExternalScrollIds are taken from
    file,       \* the font bytes under test, as the state of each table in them
    font,       \* the ParsedFont under test
    seen,       \* the font as parsed, the first shape call made and whether another input was shaped since
    NODE_ID,    \* the static NODE_ID
    doms,       \* the Dom values the program holds, by the variable that holds them
    threads     \* the threads that call Dom::event concurrently: position and locals of each

\* the state of the font and scroll parts
\* the state of the Dom part
domVars == <<NODE_ID, doms, threads>>

extVars == <<scrolled, scroll_counter, file, font, seen, domVars>>

vars == <<layout, pre, rect, ovf, op, arg, ret, calls, scrolled, scroll_counter, file, font, seen,
          NODE_ID, doms, threads>>

----------------------------------------------------------------------------
(* Bounds *)

MaxLines == 2       \* number of lines of a layout
MaxOrigin == 1      \* line origins x range over 0..MaxOrigin pixels, the block's y is 0 or MaxOrigin
MaxExtent == 2      \* line widths range over 1..MaxExtent pixels
MaxAligns == 2      \* alignment calls per behaviour
ParentHeight == 5   \* height in pixels of the parent the lines are aligned in
MaxEdge == 1        \* sizes, offsets and edge widths range over -1 and 1..MaxEdge
MaxAssigned == 3    \* fields of a PositionedRectangle that are given a non-default value
MaxAmount == 3      \* overflow amounts have a magnitude in 0..MaxAmount
MaxNodes == 2       \* nodes laid out in one layout pass
MaxText == 2        \* characters of a text that is shaped
MaxDefects == 2     \* unreadable parts (container, face, tables) of the font bytes
MaxScriptChars == 2 \* characters of a text whose script and language are estimated
MaxDoms == 2        \* Dom values the program holds at one time
MaxDomCalls == 5    \* calls of Dom::new and of the builder methods in one behaviour
MaxEvents == 2      \* Dom::event calls of one thread

RECURSIVE Pow2(_)
Pow2(n) == IF n = 0 THEN 1 ELSE 2 * Pow2(n - 1)

Scale == Pow2(MaxAligns)

\* an integral number of pixels as a fixed-point value
Px(n) == n * Scale

\* product of two fixed-point values
FMul(a, b) == (a * b) \div Scale

\* the f32 literals 0.5 and 1.0
Half == Scale \div 2
One == Scale

----------------------------------------------------------------------------
(* Option<T> *)

None == [some |-> FALSE]
Some(v) == [some |-> TRUE, val |-> v]

Min(a, b) == IF a <= b THEN a ELSE b
Max(a, b) == IF a >= b THEN a ELSE b

----------------------------------------------------------------------------
(* azul_css geometry *)

LayoutPoint(x, y) == [x |-> x, y |-> y]
LayoutSize(w, h) == [width |-> w, height |-> h]
LayoutRect(o, s) == [origin |-> o, size |-> s]

LayoutRect_zero == LayoutRect(LayoutPoint(0, 0), LayoutSize(0, 0))

\* smallest rectangle that contains a and b
Union2(a, b) ==
    LET min_x == Min(a.origin.x, b.origin.x)
        min_y == Min(a.origin.y, b.origin.y)
        max_x == Max(a.origin.x + a.size.width, b.origin.x + b.size.width)
        max_y == Max(a.origin.y + a.size.height, b.origin.y + b.size.height)
    IN LayoutRect(LayoutPoint(min_x, min_y), LayoutSize(max_x - min_x, max_y - min_y))

RECURSIVE UnionFrom(_, _, _)
UnionFrom(acc, rects, i) ==
    IF i > Len(rects) THEN acc ELSE UnionFrom(Union2(acc, rects[i]), rects, i + 1)

\* LayoutRect::union: None for no rectangles, else the union of all of them
LayoutRect_union(rects) ==
    IF Len(rects) = 0 THEN None ELSE Some(UnionFrom(rects[1], rects, 2))

----------------------------------------------------------------------------
(* InlineTextLine / InlineTextLayout *)

InlineTextLine_new(bounds, word_start, word_end) ==
    [bounds |-> bounds, word_start |-> word_start, word_end |-> word_end]

InlineTextLayout_new(lines) == [lines |-> lines]

get_leading(self) ==
    IF Len(self.lines) = 0 THEN 0 ELSE self.lines[1].bounds.origin.x

get_trailing(self) ==
    IF Len(self.lines) = 0 THEN 0
    ELSE self.lines[1].bounds.origin.x + self.lines[1].bounds.size.width

\* variant: the bounds of the first line stand in for the union
get_bounds_first_line(self) ==
    IF Len(self.lines) = 0 THEN LayoutRect_zero ELSE self.lines[1].bounds

\* variant: an empty layout falls back to a one-pixel rectangle
get_bounds_unit_default(self) ==
    LET u == LayoutRect_union([i \in 1..Len(self.lines) |-> self.lines[i].bounds])
    IN IF u.some THEN u.val ELSE LayoutRect(LayoutPoint(0, 0), LayoutSize(Px(1), Px(1)))

get_bounds(self) ==
    LET u == LayoutRect_union([i \in 1..Len(self.lines) |-> self.lines[i].bounds])
    IN IF u.some THEN u.val ELSE LayoutRect_zero

get_children_horizontal_diff_to_right_edge(self, parent) ==
    LET parent_right_edge == parent.origin.x + parent.size.width
        parent_left_edge == parent.origin.x
    IN [i \in 1..Len(self.lines) |->
            LET line == self.lines[i]
                child_right_edge == line.bounds.origin.x + line.bounds.size.width
                child_left_edge == line.bounds.origin.x
            IN (child_left_edge - parent_left_edge) + (parent_right_edge - child_right_edge)]

\* variant: the factors of Center and Right are exchanged
calculate_horizontal_shift_multiplier_swapped(horizontal_alignment) ==
    CASE horizontal_alignment = "Left" -> None
      [] horizontal_alignment = "Center" -> Some(One)
      [] horizontal_alignment = "Right" -> Some(Half)

calculate_horizontal_shift_multiplier(horizontal_alignment) ==
    CASE horizontal_alignment = "Left" -> None
      [] horizontal_alignment = "Center" -> Some(Half)
      [] horizontal_alignment = "Right" -> Some(One)

calculate_vertical_shift_multiplier(vertical_alignment) ==
    CASE vertical_alignment = "Top" -> None
      [] vertical_alignment = "Center" -> Some(Half)
      [] vertical_alignment = "Bottom" -> Some(One)

\* variant: the shift is applied to both coordinates of the origin
align_children_horizontal_both_axes(self, horizontal_alignment) ==
    LET m == calculate_horizontal_shift_multiplier(horizontal_alignment) IN
    IF ~m.some THEN self
    ELSE
        LET shift_multiplier == m.val
            self_bounds == get_bounds(self)
            horz_diff == get_children_horizontal_diff_to_right_edge(self, self_bounds)
        IN [self EXCEPT !.lines = [i \in 1..Len(self.lines) |->
                [self.lines[i] EXCEPT !.bounds.origin.x = @ + FMul(horz_diff[i], shift_multiplier),
                                      !.bounds.origin.y = @ + FMul(horz_diff[i], shift_multiplier)]]]

align_children_horizontal(self, horizontal_alignment) ==
    LET m == calculate_horizontal_shift_multiplier(horizontal_alignment) IN
    IF ~m.some THEN self
    ELSE
        LET shift_multiplier == m.val
            self_bounds == get_bounds(self)
            horz_diff == get_children_horizontal_diff_to_right_edge(self, self_bounds)
        IN [self EXCEPT !.lines = [i \in 1..Len(self.lines) |->
                [self.lines[i] EXCEPT !.bounds.origin.x = @ + FMul(horz_diff[i], shift_multiplier)]]]

\* variant: the shift is the distance from the block's bottom edge to the
\* parent's bottom edge, the block's top edge is not added
align_children_vertical_no_top_edge(self, parent_size, vertical_alignment) ==
    LET m == calculate_vertical_shift_multiplier(vertical_alignment) IN
    IF ~m.some THEN self
    ELSE
        LET shift_multiplier == m.val
            self_bounds == get_bounds(self)
            child_bottom_edge == self_bounds.origin.y + self_bounds.size.height
            shift == parent_size.height - child_bottom_edge
        IN [self EXCEPT !.lines = [i \in 1..Len(self.lines) |->
                [self.lines[i] EXCEPT !.bounds.origin.y = @ + FMul(shift, shift_multiplier)]]]

align_children_vertical_in_parent_bounds(self, parent_size, vertical_alignment) ==
    LET m == calculate_vertical_shift_multiplier(vertical_alignment) IN
    IF ~m.some THEN self
    ELSE
        LET shift_multiplier == m.val
            self_bounds == get_bounds(self)
            child_bottom_edge == self_bounds.origin.y + self_bounds.size.height
            child_top_edge == self_bounds.origin.y
            shift == child_top_edge + (parent_size.height - child_bottom_edge)
        IN [self EXCEPT !.lines = [i \in 1..Len(self.lines) |->
                [self.lines[i] EXCEPT !.bounds.origin.y = @ + FMul(shift, shift_multiplier)]]]

StyleTextAlignmentHorz == {"Left", "Center", "Right"}
StyleTextAlignmentVert == {"Top", "Center", "Bottom"}

----------------------------------------------------------------------------
(* ResolvedOffsets *)

ResolvedOffsets_zero == [top |-> 0, left |-> 0, right |-> 0, bottom |-> 0]

\* variant: the top edge is counted twice
total_vertical_top_twice(self) == self.top + self.top

total_vertical(self) == self.top + self.bottom

total_horizontal(self) == self.left + self.right

----------------------------------------------------------------------------
(* DirectionalOverflowInfo.  An f32 amount is kept as sign and magnitude,   *)
(* because the code inspects the sign bit and IEEE 754 has two zeros.       *)

F32(neg, mag) == [neg |-> neg, mag |-> mag]

\* f32::is_sign_positive: true iff the sign bit is clear (+0.0 included)
is_sign_positive(s) == ~s.neg

\* the number an f32 denotes
ValueOf(s) == IF s.neg THEN 0 - s.mag ELSE s.mag

DirectionalOverflowInfo(tag, amount) == [tag |-> tag, amount |-> amount]

OverflowTags == {"Scroll", "Auto", "Hidden", "Visible"}

DirectionalOverflowInfo_default == DirectionalOverflowInfo("Auto", None)

\* variant: an amount of zero is reported like a missing amount
get_amount_zero_as_none(self) ==
    CASE self.tag = "Scroll" /\ self.amount.some /\ self.amount.val.mag # 0 -> Some(self.amount.val)
      [] self.tag = "Auto" /\ self.amount.some /\ self.amount.val.mag # 0 -> Some(self.amount.val)
      [] self.tag = "Hidden" /\ self.amount.some /\ self.amount.val.mag # 0 -> Some(self.amount.val)
      [] self.tag = "Visible" /\ self.amount.some /\ self.amount.val.mag # 0 -> Some(self.amount.val)
      [] OTHER -> None

get_amount(self) ==
    CASE self.tag = "Scroll" /\ self.amount.some -> Some(self.amount.val)
      [] self.tag = "Auto" /\ self.amount.some -> Some(self.amount.val)
      [] self.tag = "Hidden" /\ self.amount.some -> Some(self.amount.val)
      [] self.tag = "Visible" /\ self.amount.some -> Some(self.amount.val)
      [] OTHER -> None

is_negative(self) ==
    CASE self.tag = "Scroll" /\ self.amount.some -> ~is_sign_positive(self.amount.val)
      [] self.tag = "Auto" /\ self.amount.some -> ~is_sign_positive(self.amount.val)
      [] self.tag = "Hidden" /\ self.amount.some -> ~is_sign_positive(self.amount.val)
      [] self.tag = "Visible" /\ self.amount.some -> ~is_sign_positive(self.amount.val)
      [] OTHER -> TRUE

is_none(self) ==
    CASE self.tag = "Scroll" /\ ~self.amount.some -> TRUE
      [] self.tag = "Auto" /\ ~self.amount.some -> TRUE
      [] self.tag = "Hidden" /\ ~self.amount.some -> TRUE
      [] self.tag = "Visible" /\ ~self.amount.some -> TRUE
      [] OTHER -> FALSE

OverflowInfo_default ==
    [overflow_x |-> DirectionalOverflowInfo_default, overflow_y |-> DirectionalOverflowInfo_default]

----------------------------------------------------------------------------
(* PositionInfo / PositionedRectangle *)

PositionInfo(tag, x_offset, y_offset, static_x_offset, static_y_offset) ==
    [tag |-> tag, x_offset |-> x_offset, y_offset |-> y_offset,
     static_x_offset |-> static_x_offset, static_y_offset |-> static_y_offset]

PositionTags == {"Static", "Fixed", "Absolute", "Relative"}

PositionedRectangle_default ==
    [size |-> LayoutSize(0, 0),
     position |-> PositionInfo("Static", 0, 0, 0, 0),
     padding |-> ResolvedOffsets_zero,
     margin |-> ResolvedOffsets_zero,
     border_widths |-> ResolvedOffsets_zero,
     resolved_text_layout_options |-> None,
     overflow |-> OverflowInfo_default]

\* variant: an absolutely positioned node reports static bounds as well
get_static_bounds_absolute_too(self) ==
    CASE self.position.tag = "Static" ->
            Some(LayoutRect(LayoutPoint(self.position.static_x_offset, self.position.static_y_offset), self.size))
      [] self.position.tag = "Fixed" -> None
      [] self.position.tag = "Absolute" ->
            Some(LayoutRect(LayoutPoint(self.position.static_x_offset, self.position.static_y_offset), self.size))
      [] self.position.tag = "Relative" ->
            Some(LayoutRect(LayoutPoint(self.position.static_x_offset, self.position.static_y_offset), self.size))

get_static_bounds(self) ==
    CASE self.position.tag = "Static" ->
            Some(LayoutRect(LayoutPoint(self.position.static_x_offset, self.position.static_y_offset), self.size))
      [] self.position.tag = "Fixed" -> None
      [] self.position.tag = "Absolute" -> None
      [] self.position.tag = "Relative" ->
            Some(LayoutRect(LayoutPoint(self.position.static_x_offset, self.position.static_y_offset), self.size))

\* variant: the offsets of a Fixed rectangle are left where they are
get_background_bounds_fixed_unshifted(self) ==
    LET b_size == LayoutSize(
            self.size.width + total_horizontal(self.padding) + total_horizontal(self.border_widths),
            self.size.height + total_vertical(self.padding) + total_vertical(self.border_widths))
        x_offset_add == 0 - self.padding.left - self.border_widths.left
        y_offset_add == 0 - self.padding.top - self.border_widths.top
        p == self.position
        b_position ==
            CASE p.tag = "Static" ->
                    PositionInfo("Static", p.x_offset + x_offset_add, p.y_offset + y_offset_add, p.static_x_offset, p.static_y_offset)
              [] p.tag = "Fixed" -> p
              [] p.tag = "Relative" ->
                    PositionInfo("Relative", p.x_offset + x_offset_add, p.y_offset + y_offset_add, p.static_x_offset, p.static_y_offset)
              [] p.tag = "Absolute" ->
                    PositionInfo("Absolute", p.x_offset + x_offset_add, p.y_offset + y_offset_add, p.static_x_offset, p.static_y_offset)
    IN <<b_size, b_position>>

get_background_bounds(self) ==
    LET b_size == LayoutSize(
            self.size.width + total_horizontal(self.padding) + total_horizontal(self.border_widths),
            self.size.height + total_vertical(self.padding) + total_vertical(self.border_widths))
        x_offset_add == 0 - self.padding.left - self.border_widths.left
        y_offset_add == 0 - self.padding.top - self.border_widths.top
        p == self.position
        b_position ==
            CASE p.tag = "Static" ->
                    PositionInfo("Static", p.x_offset + x_offset_add, p.y_offset + y_offset_add, p.static_x_offset, p.static_y_offset)
              [] p.tag = "Fixed" ->
                    PositionInfo("Fixed", p.x_offset + x_offset_add, p.y_offset + y_offset_add, p.static_x_offset, p.static_y_offset)
              [] p.tag = "Relative" ->
                    PositionInfo("Relative", p.x_offset + x_offset_add, p.y_offset + y_offset_add, p.static_x_offset, p.static_y_offset)
              [] p.tag = "Absolute" ->
                    PositionInfo("Absolute", p.x_offset + x_offset_add, p.y_offset + y_offset_add, p.static_x_offset, p.static_y_offset)
    IN <<b_size, b_position>>

\* variant: the margin is subtracted instead of added
get_margin_box_width_minus_margin(self) ==
    self.size.width +
    total_horizontal(self.padding) +
    total_horizontal(self.border_widths) -
    total_horizontal(self.margin)

get_margin_box_width(self) ==
    self.size.width +
    total_horizontal(self.padding) +
    total_horizontal(self.border_widths) +
    total_horizontal(self.margin)

get_margin_box_height(self) ==
    self.size.height +
    total_vertical(self.padding) +
    total_vertical(self.border_widths) +
    total_vertical(self.margin)

----------------------------------------------------------------------------
(* Inputs of the layout specification *)

\* height of one line in pixels (a bound of the inputs)
LineHeight == 1

\* the horizontal extent of a line: origin.x and width
LineSpans == { <<Px(x), Px(w)>> : x \in 0..MaxOrigin, w \in 1..MaxExtent }

\* the lines of a block are stacked from the block's y origin downwards
StackedBounds(spans, y0) ==
    [i \in 1..Len(spans) |->
        LayoutRect(LayoutPoint(spans[i][1], y0 + Px(LineHeight) * (i - 1)),
                   LayoutSize(spans[i][2], Px(LineHeight)))]

BoundsSeqs ==
    { StackedBounds(spans, y0) :
        spans \in UNION { [1..n -> LineSpans] : n \in 0..MaxLines },
        y0 \in {0, Px(MaxOrigin)} }

\* number of words on a line: one word per pixel of width
WordsOn(b) == b.size.width \div Scale

RECURSIVE WordsBefore(_, _)
WordsBefore(bs, i) == IF i <= 1 THEN 0 ELSE WordsBefore(bs, i - 1) + WordsOn(bs[i - 1])

\* lines as the layout engine produces them: contiguous half-open word ranges
LinesOf(bs) ==
    [i \in 1..Len(bs) |->
        InlineTextLine_new(bs[i], WordsBefore(bs, i), WordsBefore(bs, i) + WordsOn(bs[i]))]

ParentSizes == { LayoutSize(Px(ParentHeight), Px(ParentHeight)) }

----------------------------------------------------------------------------
(* Idle values of the parts a specification does not exercise *)

NoLayout == InlineTextLayout_new(<<>>)
NoRect == PositionedRectangle_default
NoOvf == DirectionalOverflowInfo_default
NoFile == <<>>
NoFont == <<>>

\* BTreeMap::new()
EmptyMap == [x \in {} |-> x]

ScrolledNodes_default == [overflowing_nodes |-> EmptyMap, tags_to_node_ids |-> EmptyMap]

IdleDom ==
    /\ NODE_ID = 0
    /\ doms = EmptyMap
    /\ threads = EmptyMap

IdleExt ==
    /\ scrolled = ScrolledNodes_default
    /\ scroll_counter = 0
    /\ file = NoFile
    /\ font = NoFont
    /\ seen = EmptyMap
    /\ IdleDom

IdleBox ==
    /\ layout = NoLayout
    /\ pre = NoLayout
    /\ rect = NoRect
    /\ ovf = NoOvf

boxVars == <<layout, pre, rect, ovf>>

----------------------------------------------------------------------------
(* Specification of InlineTextLayout *)

InitLayout ==
    /\ \E bs \in BoundsSeqs : layout = InlineTextLayout_new(LinesOf(bs))
    /\ pre = layout
    /\ rect = NoRect
    /\ ovf = NoOvf
    /\ op = "new"
    /\ arg = <<>>
    /\ ret = <<>>
    /\ calls = 0
    /\ IdleExt

AlignChildrenHorizontal ==
    \E a \in StyleTextAlignmentHorz :
        /\ calls < MaxAligns
        /\ layout' = align_children_horizontal(layout, a)
        /\ pre' = layout
        /\ op' = "align_children_horizontal"
        /\ arg' = <<a>>
        /\ ret' = <<>>
        /\ calls' = calls + 1
        /\ UNCHANGED <<extVars, rect, ovf>>

AlignChildrenVertical ==
    \E a \in StyleTextAlignmentVert, p \in ParentSizes :
        /\ calls < MaxAligns
        /\ layout' = align_children_vertical_in_parent_bounds(layout, p, a)
        /\ pre' = layout
        /\ op' = "align_children_vertical_in_parent_bounds"
        /\ arg' = <<p, a>>
        /\ ret' = <<>>
        /\ calls' = calls + 1
        /\ UNCHANGED <<extVars, rect, ovf>>

GetBounds ==
    /\ op # "get_bounds"
    /\ ret' = get_bounds(layout)
    /\ op' = "get_bounds"
    /\ arg' = <<>>
    /\ UNCHANGED <<extVars, layout, pre, rect, ovf, calls>>

GetLeading ==
    /\ op # "get_leading"
    /\ ret' = get_leading(layout)
    /\ op' = "get_leading"
    /\ arg' = <<>>
    /\ UNCHANGED <<extVars, layout, pre, rect, ovf, calls>>

GetTrailing ==
    /\ op # "get_trailing"
    /\ ret' = get_trailing(layout)
    /\ op' = "get_trailing"
    /\ arg' = <<>>
    /\ UNCHANGED <<extVars, layout, pre, rect, ovf, calls>>

NextLayout ==
    \/ AlignChildrenHorizontal
    \/ AlignChildrenVertical
    \/ GetBounds
    \/ GetLeading
    \/ GetTrailing

SpecLayout == InitLayout /\ [][NextLayout]_vars

----------------------------------------------------------------------------
(* Specification of PositionedRectangle: a default rectangle whose public   *)
(* fields are assigned one at a time, and the queries on it                 *)

EdgeVals == {0 - 1} \cup (1..MaxEdge)

Sides == {"top", "left", "right", "bottom"}

InitRect ==
    /\ rect = PositionedRectangle_default
    /\ layout = NoLayout
    /\ pre = NoLayout
    /\ ovf = NoOvf
    /\ op = "default"
    /\ arg = <<>>
    /\ ret = <<>>
    /\ calls = 0
    /\ IdleExt

\* assign value v to the field p[2] of the part p[1] of the rectangle; every
\* field is assigned at most once after Default::default()
Assigned(p, v) ==
    /\ calls < MaxAssigned
    /\ rect[p[1]][p[2]] = PositionedRectangle_default[p[1]][p[2]]
    /\ v # rect[p[1]][p[2]]
    /\ rect' = [rect EXCEPT ![p[1]][p[2]] = v]
    /\ op' = "set"
    /\ arg' = <<>>
    /\ ret' = <<>>
    /\ calls' = calls + 1
    /\ UNCHANGED <<extVars, layout, pre, ovf>>

SetSize ==
    \E d \in {"width", "height"}, v \in EdgeVals :
        Assigned(<<"size", d>>, v)

SetPositionVariant ==
    \E t \in PositionTags :
        Assigned(<<"position", "tag">>, t)

SetPositionOffset ==
    \E f \in {"x_offset", "y_offset", "static_x_offset", "static_y_offset"}, v \in EdgeVals :
        Assigned(<<"position", f>>, v)

SetPadding ==
    \E s \in Sides, v \in EdgeVals :
        Assigned(<<"padding", s>>, v)

SetMargin ==
    \E s \in Sides, v \in EdgeVals :
        Assigned(<<"margin", s>>, v)

SetBorderWidths ==
    \E s \in Sides, v \in EdgeVals :
        Assigned(<<"border_widths", s>>, v)

Queried(name, value) ==
    /\ op # name
    /\ op' = name
    /\ arg' = <<>>
    /\ ret' = value
    /\ UNCHANGED <<extVars, layout, pre, rect, ovf, calls>>

GetStaticBounds == Queried("get_static_bounds", get_static_bounds(rect))

GetBackgroundBounds == Queried("get_background_bounds", get_background_bounds(rect))

GetMarginBoxWidth == Queried("get_margin_box_width", get_margin_box_width(rect))

GetMarginBoxHeight == Queried("get_margin_box_height", get_margin_box_height(rect))

NextRect ==
    \/ SetSize
    \/ SetPositionVariant
    \/ SetPositionOffset
    \/ SetPadding
    \/ SetMargin
    \/ SetBorderWidths
    \/ GetStaticBounds
    \/ GetBackgroundBounds
    \/ GetMarginBoxWidth
    \/ GetMarginBoxHeight

SpecRect == InitRect /\ [][NextRect]_vars

----------------------------------------------------------------------------
(* Specification of DirectionalOverflowInfo: the default value, values     *)
(* constructed from a variant and an amount, and the queries on them        *)

Amounts == {None} \cup { Some(F32(n, m)) : n \in BOOLEAN, m \in 0..MaxAmount }

InitOverflow ==
    /\ ovf = DirectionalOverflowInfo_default
    /\ layout = NoLayout
    /\ pre = NoLayout
    /\ rect = NoRect
    /\ op = "default"
    /\ arg = <<>>
    /\ ret = <<>>
    /\ calls = 0
    /\ IdleExt

Construct ==
    \E t \in OverflowTags, a \in Amounts :
        /\ ovf' = DirectionalOverflowInfo(t, a)
        /\ op' = "new"
        /\ arg' = <<>>
        /\ ret' = <<>>
        /\ UNCHANGED <<extVars, layout, pre, rect, calls>>

OverflowQueried(name, value) ==
    /\ op # name
    /\ op' = name
    /\ arg' = <<>>
    /\ ret' = value
    /\ UNCHANGED <<extVars, layout, pre, rect, ovf, calls>>

GetAmount == OverflowQueried("get_amount", get_amount(ovf))

IsNegative == OverflowQueried("is_negative", is_negative(ovf))

IsNone == OverflowQueried("is_none", is_none(ovf))

NextOverflow ==
    \/ Construct
    \/ GetAmount
    \/ IsNegative
    \/ IsNone

SpecOverflow == InitOverflow /\ [][NextOverflow]_vars

----------------------------------------------------------------------------
(* Text shaping (azul-text-layout/src/text_shaping_new.rs).  The tables of  *)
(* a font and the allsorts routines that read them are kept abstract: a     *)
(* table is a small value that says how the routine behaves on it.          *)

\* Result<T, E>
Ok(v) == [ok |-> TRUE, val |-> v]
Err == [ok |-> FALSE]

\* the outcome of a call that did not return
Panic == [panic |-> TRUE]

\* the variation selectors allsorts::unicode::VariationSelector can hold
RecognisedSelectors == {"VS01", "VS02", "VS03", "VS15", "VS16"}

\* all of Unicode's variation selectors that occur in the model
UnicodeSelectors == RecognisedSelectors \cup {"VS04"}

\* VariationSelector::try_from(char)
VariationSelector_try_from(ch) ==
    IF ch \in RecognisedSelectors THEN Ok(ch) ELSE Err

DOTTED_CIRCLE == "dotted_circle"

\* glyph index of the ligature the abstract GSUB table forms of two glyphs 1
LigatureGlyph == 4

\* CmapSubtable::map_glyph: Ok(Some(glyph)), Ok(None) or Err, as the table says
map_glyph(cmap_subtable, c) == cmap_subtable[c]

\* variant: a failing cmap lookup yields the last glyph index instead of notdef
lookup_glyph_index_err_as_max(self, c) ==
    LET r == map_glyph(self.cmap_subtable, c)
    IN IF r.ok /\ r.val.some THEN r.val.val
       ELSE IF r.ok THEN 0 ELSE 65535

lookup_glyph_index(self, c) ==
    LET r == map_glyph(self.cmap_subtable, c)
    IN IF r.ok /\ r.val.some THEN r.val.val ELSE 0

make_raw_glyph(ch, glyph_index, variation) ==
    [unicodes |-> <<ch>>,
     glyph_index |-> glyph_index,
     liga_component_pos |-> 0,
     glyph_origin |-> <<"Char", ch>>,
     small_caps |-> FALSE,
     multi_subst_dup |-> FALSE,
     is_vert_alt |-> FALSE,
     fake_bold |-> FALSE,
     fake_italic |-> FALSE,
     variation |-> variation]

RECURSIVE map_glyphs_from(_, _, _, _)
\* the loop over chars_iter, i being the position of the next character
map_glyphs_from(parsed, text, i, glyphs) ==
    IF i > Len(text) THEN glyphs
    ELSE
        LET ch == text[i] IN
        IF VariationSelector_try_from(ch).ok
        THEN map_glyphs_from(parsed, text, i + 1, glyphs)
        ELSE
            LET vs == IF i < Len(text) /\ VariationSelector_try_from(text[i + 1]).ok
                      THEN Some(VariationSelector_try_from(text[i + 1]).val)
                      ELSE None
                glyph_index == lookup_glyph_index(parsed, ch)
                glyph == make_raw_glyph(ch, glyph_index, vs)
            IN map_glyphs_from(parsed, text, i + 1, Append(glyphs, glyph))

RECURSIVE map_glyphs_keep_selectors_from(_, _, _, _)
map_glyphs_keep_selectors_from(parsed, text, i, glyphs) ==
    IF i > Len(text) THEN glyphs
    ELSE
        LET ch == text[i]
            vs == IF i < Len(text) /\ VariationSelector_try_from(text[i + 1]).ok
                  THEN Some(VariationSelector_try_from(text[i + 1]).val)
                  ELSE None
            glyph_index == lookup_glyph_index(parsed, ch)
            glyph == make_raw_glyph(ch, glyph_index, vs)
        IN map_glyphs_keep_selectors_from(parsed, text, i + 1, Append(glyphs, glyph))

\* variant: variation selectors are not filtered out of the stream
map_glyphs_keep_selectors(parsed, text) == map_glyphs_keep_selectors_from(parsed, text, 1, <<>>)

\* the mapping step of shape
map_glyphs(parsed, text) == map_glyphs_from(parsed, text, 1, <<>>)

RECURSIVE form_ligatures(_, _)
\* every pair of adjacent glyphs 1 becomes the ligature glyph, left to right
form_ligatures(glyphs, i) ==
    IF i > Len(glyphs) THEN <<>>
    ELSE IF i < Len(glyphs) /\ glyphs[i].glyph_index = 1 /\ glyphs[i + 1].glyph_index = 1
         THEN <<[glyphs[i] EXCEPT !.glyph_index = LigatureGlyph]>> \o form_ligatures(glyphs, i + 2)
         ELSE <<glyphs[i]>> \o form_ligatures(glyphs, i + 1)

\* allsorts::gsub::apply on an abstract GSUB table: "identity" leaves the
\* glyphs alone, "ligature" forms ligatures for the Latin script, "error" fails
gsub_apply(dotted_circle_index, gsub_cache, script, lang, glyphs) ==
    CASE gsub_cache = "identity" -> Ok(glyphs)
      [] gsub_cache = "ligature" ->
            Ok(IF script = "latn" THEN form_ligatures(glyphs, 1) ELSE glyphs)
      [] gsub_cache = "error" -> Err

\* allsorts::gpos::Info::init_from_glyphs
init_from_glyphs(glyphs) ==
    [i \in 1..Len(glyphs) |->
        [glyph |-> glyphs[i], kerning |-> 0, placement |-> "None",
         mark_placement |-> "None", is_mark |-> FALSE]]

\* allsorts::gpos::apply on an abstract GPOS table: "kern" tightens every
\* glyph that is followed by another one, "error" fails
gpos_apply(gpos_cache, kerning, script, lang, infos) ==
    CASE gpos_cache = "identity" -> Ok(infos)
      [] gpos_cache = "kern" ->
            Ok([i \in 1..Len(infos) |->
                    IF kerning /\ i < Len(infos) THEN [infos[i] EXCEPT !.kerning = 0 - 1] ELSE infos[i]])
      [] gpos_cache = "error" -> Err

\* allsorts::glyph_info::advance on abstract hmtx / vmtx data: data that is
\* shorter than maxp and hhea require cannot be read
advance(metrics_data, glyph_index) ==
    IF metrics_data.readable THEN Ok(metrics_data.base + glyph_index) ELSE Err

\* variant: the advance found first is kept in the font and returned for
\* every later glyph
get_advance_cached(self, glyph_index) ==
    LET horizontal_advance == advance(self.hmtx_data, glyph_index)
        vertical_advance == advance(self.vmtx_data, glyph_index)
    IN IF ~horizontal_advance.ok \/ ~vertical_advance.ok THEN Panic
       ELSE IF "advance_cache" \in DOMAIN self
            THEN [panic |-> FALSE, val |-> self.advance_cache, font |-> self]
            ELSE [panic |-> FALSE,
                  val |-> <<horizontal_advance.val, vertical_advance.val>>,
                  font |-> [f \in DOMAIN self \cup {"advance_cache"} |->
                                IF f = "advance_cache"
                                THEN <<horizontal_advance.val, vertical_advance.val>>
                                ELSE self[f]]]

\* get_advance takes &mut self: the font after the call is part of the outcome;
\* unwrap() of an Err panics
get_advance(self, glyph_index) ==
    LET horizontal_advance == advance(self.hmtx_data, glyph_index)
        vertical_advance == advance(self.vmtx_data, glyph_index)
    IN IF ~horizontal_advance.ok \/ ~vertical_advance.ok THEN Panic
       ELSE [panic |-> FALSE,
             val |-> <<horizontal_advance.val, vertical_advance.val>>,
             font |-> self]

translate_raw_glyph(rg) ==
    [unicodes |-> <<rg.unicodes[1]>>,
     glyph_index |-> rg.glyph_index,
     liga_component_pos |-> rg.liga_component_pos,
     glyph_origin |-> rg.glyph_origin,
     small_caps |-> rg.small_caps,
     multi_subst_dup |-> rg.multi_subst_dup,
     is_vert_alt |-> rg.is_vert_alt,
     fake_bold |-> rg.fake_bold,
     fake_italic |-> rg.fake_italic,
     variation |-> rg.variation]

translate_info(i, size) ==
    [glyph |-> translate_raw_glyph(i.glyph),
     size |-> size,
     placement |-> i.placement,
     mark_placement |-> i.mark_placement,
     is_mark |-> i.is_mark]

RECURSIVE collect_infos(_, _, _, _)
\* the filter_map(..).collect() over the positioned infos; a panic of
\* get_advance ends the call
collect_infos(parsed, infos, i, out) ==
    IF i > Len(infos) THEN [panic |-> FALSE, val |-> out, font |-> parsed]
    ELSE
        LET glyph_index == infos[i].glyph.glyph_index
            adv == get_advance(parsed, glyph_index)
        IN IF adv.panic THEN Panic
           ELSE
                LET size == [x |-> adv.val[1], y |-> adv.val[2], kerning |-> infos[i].kerning]
                    info == translate_info(infos[i], size)
                IN collect_infos(adv.font, infos, i + 1, Append(out, info))

ShapedTextBufferUnsized(infos) == [infos |-> infos]

ShapedTextBufferUnsized_default == ShapedTextBufferUnsized(<<>>)

\* fn shape: the outcome holds the returned Option (or the panic), the font
\* after the call, and what the stages of the call produced
shape(parsed, text, script, lang) ==
    LET glyphs == map_glyphs(parsed, text)
        dotted_circle_index == lookup_glyph_index(parsed, DOTTED_CIRCLE)
        substituted == gsub_apply(dotted_circle_index, parsed.gsub_cache, script, lang, glyphs)
    IN IF ~substituted.ok
       THEN [panic |-> FALSE, val |-> None, font |-> parsed,
             stage |-> "gsub_failed", mapped |-> glyphs, positioned |-> <<>>]
       ELSE
            LET kerning == TRUE
                infos == init_from_glyphs(substituted.val)
                positioned == gpos_apply(parsed.gpos_cache, kerning, script, lang, infos)
            IN IF ~positioned.ok
               THEN [panic |-> FALSE, val |-> None, font |-> parsed,
                     stage |-> "gpos_failed", mapped |-> glyphs, positioned |-> <<>>]
               ELSE
                    LET collected == collect_infos(parsed, positioned.val, 1, <<>>)
                    IN IF collected.panic
                       THEN [panic |-> TRUE, val |-> Panic, font |-> parsed,
                             stage |-> "advance_failed", mapped |-> glyphs, positioned |-> positioned.val]
                       ELSE [panic |-> FALSE,
                             val |-> Some(ShapedTextBufferUnsized(collected.val)),
                             font |-> collected.font,
                             stage |-> "done", mapped |-> glyphs, positioned |-> positioned.val]

\* ParsedFont::shape: unwrap_or_default of fn shape
ParsedFont_shape(self, text, script, lang) ==
    LET r == shape(self, text, script, lang)
    IN IF r.panic THEN r
       ELSE [r EXCEPT !.val = IF r.val.some THEN r.val.val ELSE ShapedTextBufferUnsized_default]

\* the characters texts are made of: a letter, a variation selector allsorts
\* recognises and one it does not
ShapeChars == {"a", "VS15", "VS04"}

ShapeTexts == UNION {[1..n -> ShapeChars] : n \in 0..MaxText}

ShapeScripts == {"latn"}

ShapeLangs == {"ENG"}

\* a cmap subtable that maps every character
CmapFull ==
    [c \in ShapeChars \cup {DOTTED_CIRCLE} |->
        CASE c = "a" -> Ok(Some(1))
          [] c = "VS04" -> Ok(Some(2))
          [] c = DOTTED_CIRCLE -> Ok(Some(3))
          [] c = "VS15" -> Ok(Some(5))]

\* a cmap subtable with unmapped characters and one whose lookup fails
CmapSparse ==
    [c \in ShapeChars \cup {DOTTED_CIRCLE} |->
        IF c = "VS04" THEN Err ELSE Ok(None)]

HmtxBase == 10
VmtxBase == 20

GoodFont ==
    [cmap_subtable |-> CmapFull,
     gsub_cache |-> "ligature",
     gpos_cache |-> "kern",
     hmtx_data |-> [readable |-> TRUE, base |-> HmtxBase],
     vmtx_data |-> [readable |-> TRUE, base |-> VmtxBase]]

\* the fonts shaped with: the good one and those that differ from it in one table
ShapeFonts ==
    {GoodFont,
     [GoodFont EXCEPT !.gsub_cache = "identity", !.gpos_cache = "identity"],
     [GoodFont EXCEPT !.cmap_subtable = CmapSparse],
     [GoodFont EXCEPT !.gsub_cache = "error"],
     [GoodFont EXCEPT !.gpos_cache = "error"],
     [GoodFont EXCEPT !.hmtx_data.readable = FALSE],
     [GoodFont EXCEPT !.vmtx_data.readable = FALSE]}

InitShape ==
    /\ font \in ShapeFonts
    /\ seen = [font0 |-> font, first |-> None, between |-> FALSE]
    /\ scrolled = ScrolledNodes_default
    /\ scroll_counter = 0
    /\ file = NoFile
    /\ IdleBox
    /\ IdleDom
    /\ op = "from_bytes"
    /\ arg = <<>>
    /\ ret = <<>>
    /\ calls = 0

\* a panic ends the program
Panicked == op = "shape" /\ ret.panic

Shape ==
    \E text \in ShapeTexts, script \in ShapeScripts, lang \in ShapeLangs :
      \E r \in {ParsedFont_shape(font, text, script, lang)} :
        LET input == <<text, script, lang>>
        IN  /\ ~Panicked
            /\ font' = r.font
            /\ op' = "shape"
            /\ arg' = input
            /\ ret' = [panic |-> r.panic, val |-> r.val, stage |-> r.stage,
                       mapped |-> r.mapped, positioned |-> r.positioned]
            /\ seen' = IF ~seen.first.some
                       THEN [seen EXCEPT !.first = Some([input |-> input, val |-> r.val])]
                       ELSE IF seen.first.val.input # input
                            THEN [seen EXCEPT !.between = TRUE]
                            ELSE seen
            /\ UNCHANGED <<boxVars, domVars, scrolled, scroll_counter, file, calls>>

LookupGlyphIndex ==
    \E c \in ShapeChars \cup {DOTTED_CIRCLE} :
        /\ ~Panicked
        /\ op' = "lookup_glyph_index"
        /\ arg' = c
        /\ ret' = lookup_glyph_index(font, c)
        /\ UNCHANGED <<boxVars, extVars, calls>>

NextShape == Shape \/ LookupGlyphIndex

SpecShape == InitShape /\ [][NextShape]_vars

----------------------------------------------------------------------------
(* Reading a font (get_font_metrics, ParsedFont::from_bytes).  The font     *)
(* bytes are kept as what a reader finds in them: whether the container and *)
(* the face at font_index can be read, and for each table whether it is     *)
(* absent, present with malformed content, or well-formed.                  *)

FontTables == {"head", "hhea", "vhea", "maxp", "hmtx", "vmtx", "cmap", "GSUB", "GPOS", "GDEF", "OS/2"}

\* what a reader finds of a table that cannot be read
DefectiveStates == {"absent", "malformed"}

Os2Groups == {"version0", "version1", "version2to4", "version5"}

\* the values head.units_per_em takes in the font bytes
UnitsPerEmValues == {0, 2048}

\* scope.read::<FontData>()
read_font_data(bytes) == IF bytes.container THEN Ok(bytes) ELSE Err

\* font_file.table_provider(font_index)
table_provider(bytes) == IF bytes.face THEN Ok(bytes) ELSE Err

\* provider.table_data(tag).ok()?: the raw bytes of a table that is present
table_data(provider, table_tag) ==
    IF provider.tables[table_tag] = "absent" THEN None ELSE Some(provider.tables[table_tag])

\* ReadScope::new(data).read::<Table>().ok(): the content of a well-formed table
read_table(data) == IF data = "ok" THEN Some(data) ELSE None

\* allsorts::font::Font::new(provider).ok() flattened: the font object exists
\* when cmap (with a usable subtable), maxp and hhea can be read and hmtx is
\* present; head, OS/2, GSUB, GPOS and GDEF are read later, on demand
Font_new(provider) ==
    IF /\ provider.tables["cmap"] = "ok"
       /\ provider.tables["maxp"] = "ok"
       /\ provider.tables["hhea"] = "ok"
       /\ provider.tables["hmtx"] # "absent"
    THEN Some(provider)
    ELSE None

\* font.head_table().ok(), font.os2_table().ok(), gsub_cache().ok() and the
\* like, flattened: Some for a table that is present and well-formed
lazy_table(font_object, table_tag) ==
    IF font_object.tables[table_tag] = "ok" THEN Some(font_object) ELSE None

\* what the well-formed tables of the font bytes hold
HeadTable(bytes) == [units_per_em |-> bytes.units_per_em, flags |-> 11, x_max |-> 900]

HheaTable(bytes) == [ascender |-> 800, descender |-> 0 - 200, num_h_metrics |-> 3]

Os2Table(bytes) ==
    [us_weight_class |-> 400,
     version0 |-> IF "version0" \in bytes.os2_groups THEN Some([s_typo_ascender |-> 700]) ELSE None,
     version1 |-> IF "version1" \in bytes.os2_groups THEN Some([ul_code_page_range1 |-> 1]) ELSE None,
     version2to4 |-> IF "version2to4" \in bytes.os2_groups THEN Some([sx_height |-> 500]) ELSE None,
     version5 |-> IF "version5" \in bytes.os2_groups THEN Some([us_lower_optical_point_size |-> 8]) ELSE None]

\* Option::map
Option_map(o, field) == IF o.some THEN Some(o.val[field]) ELSE None

Os2Info_default ==
    [us_weight_class |-> 0,
     s_typo_ascender |-> None,
     ul_code_page_range1 |-> None,
     sx_height |-> None,
     us_lower_optical_point_size |-> None]

\* variant: the version 1 fields are taken from the presence of version 0
read_os2_info_v1_from_v0(font_object) ==
    IF lazy_table(font_object, "OS/2").some
    THEN LET s == Os2Table(font_object)
         IN [us_weight_class |-> s.us_weight_class,
             s_typo_ascender |-> Option_map(s.version0, "s_typo_ascender"),
             ul_code_page_range1 |-> IF s.version0.some THEN Some(1) ELSE None,
             sx_height |-> Option_map(s.version2to4, "sx_height"),
             us_lower_optical_point_size |-> Option_map(s.version5, "us_lower_optical_point_size")]
    ELSE Os2Info_default

\* let os2_table = match font.os2_table().ok() { .. }
read_os2_info(font_object) ==
    IF lazy_table(font_object, "OS/2").some
    THEN LET s == Os2Table(font_object)
         IN [us_weight_class |-> s.us_weight_class,
             s_typo_ascender |-> Option_map(s.version0, "s_typo_ascender"),
             ul_code_page_range1 |-> Option_map(s.version1, "ul_code_page_range1"),
             sx_height |-> Option_map(s.version2to4, "sx_height"),
             us_lower_optical_point_size |-> Option_map(s.version5, "us_lower_optical_point_size")]
    ELSE Os2Info_default

\* FontMetrics::default() of azul_core
FontMetrics_default ==
    [units_per_em |-> 1000,
     font_flags |-> 0,
     x_max |-> 0,
     ascender |-> 0,
     descender |-> 0,
     num_h_metrics |-> 0,
     us_weight_class |-> 0,
     s_typo_ascender |-> None,
     ul_code_page_range1 |-> None,
     sx_height |-> None,
     us_lower_optical_point_size |-> None]

\* variant: the value of the head table is taken as it is
nonzero_or_unchecked(value, fallback) == value

\* NonZeroU16::new(value).unwrap_or(fallback)
nonzero_or(value, fallback) == IF value # 0 THEN value ELSE fallback

get_font_metrics(font_bytes) ==
    IF ~read_font_data(font_bytes).ok THEN FontMetrics_default
    ELSE IF ~table_provider(font_bytes).ok THEN FontMetrics_default
    ELSE IF ~Font_new(font_bytes).some THEN FontMetrics_default
    ELSE IF ~lazy_table(font_bytes, "head").some THEN FontMetrics_default
    ELSE
        LET hhea_table == HheaTable(font_bytes)
            head_table == HeadTable(font_bytes)
            os2_table == read_os2_info(font_bytes)
        IN [units_per_em |-> nonzero_or(head_table.units_per_em, 1000),
            font_flags |-> head_table.flags,
            x_max |-> head_table.x_max,
            ascender |-> hhea_table.ascender,
            descender |-> hhea_table.descender,
            num_h_metrics |-> hhea_table.num_h_metrics,
            us_weight_class |-> os2_table.us_weight_class,
            s_typo_ascender |-> os2_table.s_typo_ascender,
            ul_code_page_range1 |-> os2_table.ul_code_page_range1,
            sx_height |-> os2_table.sx_height,
            us_lower_optical_point_size |-> os2_table.us_lower_optical_point_size]

\* ParsedFont::from_bytes: every `?` is an early return of None
ParsedFont_from_bytes(font_bytes) ==
    IF ~read_font_data(font_bytes).ok THEN None
    ELSE IF ~table_provider(font_bytes).ok THEN None
    ELSE IF ~table_data(font_bytes, "hmtx").some THEN None
    ELSE IF ~table_data(font_bytes, "vmtx").some THEN None
    ELSE IF ~table_data(font_bytes, "vhea").some THEN None
    ELSE IF ~read_table(table_data(font_bytes, "vhea").val).some THEN None
    ELSE IF ~table_data(font_bytes, "hhea").some THEN None
    ELSE IF ~read_table(table_data(font_bytes, "hhea").val).some THEN None
    ELSE IF ~table_data(font_bytes, "maxp").some THEN None
    ELSE IF ~read_table(table_data(font_bytes, "maxp").val).some THEN None
    ELSE
        LET font_metrics == get_font_metrics(font_bytes)
        IN IF ~Font_new(font_bytes).some THEN None
           ELSE IF ~lazy_table(font_bytes, "GSUB").some THEN None
           ELSE IF ~lazy_table(font_bytes, "GPOS").some THEN None
           ELSE IF ~lazy_table(font_bytes, "GDEF").some THEN None
           ELSE Some([font_metrics |-> font_metrics,
                      hhea_table |-> HheaTable(font_bytes),
                      hmtx_data |-> table_data(font_bytes, "hmtx").val,
                      vhea_table |-> HheaTable(font_bytes),
                      vmtx_data |-> table_data(font_bytes, "vmtx").val])

\* the parts of the font bytes that may be unreadable
FontParts == FontTables \cup {"container", "face"}

\* the font bytes whose unreadable parts are those of the set
FontFilesWith(defective) ==
    {[container |-> "container" \notin defective,
      face |-> "face" \notin defective,
      tables |-> [t \in FontTables |-> IF t \in defective THEN found[t] ELSE "ok"],
      units_per_em |-> units_per_em,
      os2_groups |-> os2_groups] :
        found \in [defective \cap FontTables -> DefectiveStates],
        units_per_em \in UnitsPerEmValues,
        os2_groups \in SUBSET Os2Groups}

\* the sets of unreadable parts
DefectSets == {d \in SUBSET FontParts : Cardinality(d) <= MaxDefects}

InitFont ==
    /\ \E defective \in DefectSets : file \in FontFilesWith(defective)
    /\ font = NoFont
    /\ seen = EmptyMap
    /\ scrolled = ScrolledNodes_default
    /\ scroll_counter = 0
    /\ IdleBox
    /\ IdleDom
    /\ op = "read"
    /\ arg = <<>>
    /\ ret = <<>>
    /\ calls = 0

FromBytes ==
    /\ op' = "from_bytes"
    /\ arg' = <<>>
    /\ ret' = ParsedFont_from_bytes(file)
    /\ UNCHANGED <<boxVars, extVars, calls>>

GetFontMetrics ==
    /\ op' = "get_font_metrics"
    /\ arg' = <<>>
    /\ ret' = get_font_metrics(file)
    /\ UNCHANGED <<boxVars, extVars, calls>>

NextFont == FromBytes \/ GetFontMetrics

SpecFont == InitFont /\ [][NextFont]_vars

----------------------------------------------------------------------------
(* Script and language estimation (estimate_script_and_language).  A text   *)
(* is kept as what whatlang reads of it: the script class of each character *)
(* and the language its trigrams point to.                                  *)

Lower == <<"a", "b", "c", "d", "e", "f", "g", "h", "i", "j", "k", "l", "m",
           "n", "o", "p", "q", "r", "s", "t", "u", "v", "w", "x", "y", "z">>

Upper == <<"A", "B", "C", "D", "E", "F", "G", "H", "I", "J", "K", "L", "M",
           "N", "O", "P", "Q", "R", "S", "T", "U", "V", "W", "X", "Y", "Z">>

IndexIn(letters, c) == CHOOSE i \in 1..Len(letters) : letters[i] = c

IsIn(letters, c) == \E i \in 1..Len(letters) : letters[i] = c

\* the ASCII code of a character (chars[i] as u32)
Ord(c) ==
    IF IsIn(Lower, c) THEN 96 + IndexIn(Lower, c)
    ELSE IF IsIn(Upper, c) THEN 64 + IndexIn(Upper, c)
    ELSE IF c = " " THEN 32
    ELSE 48 + (CHOOSE d \in 0..9 : ToString(d) = c)

\* const fn tag: the four bytes as a big-endian u32
tag(chars) ==
    Ord(chars[4]) + Ord(chars[3]) * 256 + Ord(chars[2]) * 65536 + Ord(chars[1]) * 16777216


\* the match from whatlang::Script to the script tag, each TAG_ constant
\* written as the tag!(..) it is defined as
ScriptTagOf ==
    [Arabic |-> tag(<<"a", "r", "a", "b">>),
     Bengali |-> tag(<<"b", "e", "n", "g">>),
     Cyrillic |-> tag(<<"c", "y", "r", "l">>),
     Devanagari |-> tag(<<"d", "e", "v", "a">>),
     Ethiopic |-> tag(<<"e", "t", "h", "i">>),
     Georgian |-> tag(<<"g", "e", "o", "r">>),
     Greek |-> tag(<<"g", "r", "e", "k">>),
     Gujarati |-> tag(<<"g", "u", "j", "r">>),
     Gurmukhi |-> tag(<<"g", "u", "r", "2">>),
     Hangul |-> tag(<<"h", "a", "n", "g">>),
     Hebrew |-> tag(<<"h", "e", "b", "r">>),
     Hiragana |-> tag(<<"k", "a", "n", "a">>),
     Kannada |-> tag(<<"k", "n", "d", "2">>),
     Katakana |-> tag(<<"k", "a", "n", "a">>),
     Khmer |-> tag(<<"k", "h", "m", "r">>),
     Latin |-> tag(<<"l", "a", "t", "n">>),
     Malayalam |-> tag(<<"m", "l", "y", "m">>),
     Mandarin |-> tag(<<"m", "a", "n", "d">>),
     Myanmar |-> tag(<<"m", "y", "m", "2">>),
     Oriya |-> tag(<<"o", "r", "y", "a">>),
     Sinhala |-> tag(<<"s", "i", "n", "h">>),
     Tamil |-> tag(<<"t", "a", "m", "l">>),
     Telugu |-> tag(<<"t", "e", "l", "u">>),
     Thai |-> tag(<<"t", "h", "a", "i">>)]

\* whatlang::Script, in declaration order
Scripts ==
    <<"Arabic", "Bengali", "Cyrillic", "Devanagari", "Ethiopic", "Georgian", "Greek", "Gujarati",
      "Gurmukhi", "Hangul", "Hebrew", "Hiragana", "Kannada", "Katakana", "Khmer", "Latin",
      "Malayalam", "Mandarin", "Myanmar", "Oriya", "Sinhala", "Tamil", "Telugu", "Thai">>

ScriptSet == {Scripts[i] : i \in 1..Len(Scripts)}

\* the languages whatlang tells apart within a script
LangsOf ==
    [Arabic |-> <<"Ara">>,
     Bengali |-> <<"Ben">>,
     Cyrillic |-> <<"Rus", "Ukr">>,
     Devanagari |-> <<"Hin">>,
     Ethiopic |-> <<"Amh">>,
     Georgian |-> <<"Kat">>,
     Greek |-> <<"Ell">>,
     Gujarati |-> <<"Guj">>,
     Gurmukhi |-> <<"Pan">>,
     Hangul |-> <<"Kor">>,
     Hebrew |-> <<"Heb">>,
     Hiragana |-> <<"Jpn">>,
     Kannada |-> <<"Kan">>,
     Katakana |-> <<"Jpn">>,
     Khmer |-> <<"Khm">>,
     Latin |-> <<"Eng", "Fra">>,
     Malayalam |-> <<"Mal">>,
     Mandarin |-> <<"Cmn">>,
     Myanmar |-> <<"Mya">>,
     Oriya |-> <<"Ori">>,
     Sinhala |-> <<"Sin">>,
     Tamil |-> <<"Tam">>,
     Telugu |-> <<"Tel">>,
     Thai |-> <<"Tha">>]

\* variant: the language code is used as it is
to_uppercase_unchanged(code) == code

\* str::to_uppercase on a lowercase ASCII code
to_uppercase(code) ==
    [i \in 1..Len(code) |-> IF IsIn(Lower, code[i]) THEN Upper[IndexIn(Lower, code[i])] ELSE code[i]]

\* Lang::code(): the ISO 639-3 code of a language
Lang_code ==
    [Ara |-> <<"a", "r", "a">>, Ben |-> <<"b", "e", "n">>, Rus |-> <<"r", "u", "s">>,
     Ukr |-> <<"u", "k", "r">>, Hin |-> <<"h", "i", "n">>, Amh |-> <<"a", "m", "h">>,
     Kat |-> <<"k", "a", "t">>, Ell |-> <<"e", "l", "l">>, Guj |-> <<"g", "u", "j">>,
     Pan |-> <<"p", "a", "n">>, Kor |-> <<"k", "o", "r">>, Heb |-> <<"h", "e", "b">>,
     Jpn |-> <<"j", "p", "n">>, Kan |-> <<"k", "a", "n">>, Khm |-> <<"k", "h", "m">>,
     Eng |-> <<"e", "n", "g">>, Fra |-> <<"f", "r", "a">>, Mal |-> <<"m", "a", "l">>,
     Cmn |-> <<"c", "m", "n">>, Mya |-> <<"m", "y", "a">>, Ori |-> <<"o", "r", "i">>,
     Sin |-> <<"s", "i", "n">>, Tam |-> <<"t", "a", "m">>, Tel |-> <<"t", "e", "l">>,
     Tha |-> <<"t", "h", "a">>]

\* allsorts::tag::from_string: at most four characters, padded with spaces
from_string(str) ==
    IF Len(str) > 4 THEN Err
    ELSE Ok(tag([i \in 1..4 |-> IF i <= Len(str) THEN str[i] ELSE " "]))

\* the number of characters of a script class in the text
CountOf(chars, class) == Cardinality({i \in 1..Len(chars) : chars[i] = class})

\* whatlang's script detection: the script most characters belong to, the
\* first in declaration order among equals, none without a character of any
detect_script(chars) ==
    IF \A i \in 1..Len(Scripts) : CountOf(chars, Scripts[i]) = 0 THEN None
    ELSE LET best == CHOOSE i \in 1..Len(Scripts) :
                        /\ \A j \in 1..Len(Scripts) : CountOf(chars, Scripts[j]) <= CountOf(chars, Scripts[i])
                        /\ \A j \in 1..(i - 1) : CountOf(chars, Scripts[j]) < CountOf(chars, Scripts[i])
         IN Some(Scripts[best])

\* whatlang::detect: no result without a script; within a script of several
\* languages the trigrams decide, and no result when they match none
detect(text) ==
    LET script == detect_script(text.chars)
    IN IF ~script.some THEN None
       ELSE LET langs == LangsOf[script.val]
            IN IF Len(langs) = 1 THEN Some([lang |-> langs[1], script |-> script.val])
               ELSE IF text.trigrams = 0 THEN None
               ELSE Some([lang |-> langs[Min(text.trigrams, Len(langs))], script |-> script.val])

\* variant: a match with a catch-all arm for the less common families
estimate_script_and_language_catch_all(text) ==
    LET info == detect(text)
        lang == IF info.some THEN info.val.lang ELSE "Eng"
        script == IF info.some THEN info.val.script ELSE "Latin"
        lang_tag == from_string(to_uppercase(Lang_code[lang]))
    IN IF ~lang_tag.ok THEN [panic |-> TRUE, val |-> Panic]
       ELSE [panic |-> FALSE,
             val |-> <<IF script \in {"Arabic", "Cyrillic", "Greek", "Hebrew", "Latin"}
                       THEN ScriptTagOf[script] ELSE ScriptTagOf["Latin"],
                       lang_tag.val>>]

\* estimate_script_and_language: (script tag, language tag), or the panic of
\* the unwrap of from_string
estimate_script_and_language(text) ==
    LET info == detect(text)
        lang == IF info.some THEN info.val.lang ELSE "Eng"
        script == IF info.some THEN info.val.script ELSE "Latin"
        lang_tag == from_string(to_uppercase(Lang_code[lang]))
    IN IF ~lang_tag.ok THEN [panic |-> TRUE, val |-> Panic]
       ELSE [panic |-> FALSE, val |-> <<ScriptTagOf[script], lang_tag.val>>]

\* the script classes of characters: those of a script and the common ones
\* (digits, spaces, punctuation)
CharClasses == ScriptSet \cup {"Common"}

\* the language the trigrams of a text point to: none, the first or the second
TrigramHints == 0..2

ScriptTexts ==
    [chars : UNION {[1..n -> CharClasses] : n \in 0..MaxScriptChars}, trigrams : TrigramHints]

InitScript ==
    /\ arg \in ScriptTexts
    /\ op = "text"
    /\ ret = <<>>
    /\ calls = 0
    /\ IdleBox
    /\ IdleDom
    /\ scrolled = ScrolledNodes_default
    /\ scroll_counter = 0
    /\ file = NoFile
    /\ font = NoFont
    /\ seen = EmptyMap

EstimateScriptAndLanguage ==
    /\ op' = "estimate_script_and_language"
    /\ ret' = estimate_script_and_language(arg)
    /\ UNCHANGED <<boxVars, extVars, calls, arg>>

NextScript == EstimateScriptAndLanguage

SpecScript == InitScript /\ [][NextScript]_vars

----------------------------------------------------------------------------
(* Overflow resolution and scroll registration of one layout pass.  The     *)
(* solver that fills ScrolledNodes is not part of the sources at hand; it   *)
(* is modelled after sections 4.4 and 8 of the specification, on top of the *)
(* ScrolledNodes / OverflowingScrollNode / ExternalScrollId declarations.   *)

\* f32 subtraction a - b of two non-negative whole numbers; x - x is +0.0
FSub(a, b) == IF a >= b THEN F32(FALSE, a - b) ELSE F32(TRUE, b - a)

\* per axis: children's combined margin-box extent minus the container's
\* content extent; None without children
resolve_overflow(mode, children, container) ==
    DirectionalOverflowInfo(mode,
        IF children.some THEN Some(FSub(children.val, container)) ELSE None)

resolve_overflow_info(node) ==
    [overflow_x |-> resolve_overflow(node.overflow_x,
                        IF node.children.some THEN Some(node.children.val.width) ELSE None,
                        node.size.width),
     overflow_y |-> resolve_overflow(node.overflow_y,
                        IF node.children.some THEN Some(node.children.val.height) ELSE None,
                        node.size.height)]

\* variant: an Auto axis counts as scrolling as soon as its amount is not negative
scrolls_on_axis_not_negative(o) ==
    \/ o.tag = "Scroll"
    \/ o.tag = "Auto" /\ ~is_negative(o)

\* an axis makes its node a scroll container if its mode is Scroll, or Auto
\* with a positive measured amount
scrolls_on_axis(o) ==
    \/ o.tag = "Scroll"
    \/ o.tag = "Auto" /\ o.amount.some /\ ValueOf(o.amount.val) > 0

is_scroll_container(overflow) ==
    scrolls_on_axis(overflow.overflow_x) \/ scrolls_on_axis(overflow.overflow_y)

ExternalScrollId(id, pipeline) == <<id, pipeline>>

PipelineId == "pipeline"

OverflowingScrollNode(child_rect, parent_external_scroll_id, parent_dom_hash, scroll_tag_id) ==
    [child_rect |-> child_rect,
     parent_external_scroll_id |-> parent_external_scroll_id,
     parent_dom_hash |-> parent_dom_hash,
     scroll_tag_id |-> scroll_tag_id]

\* BTreeMap::insert
Insert(map, k, v) == [x \in DOMAIN map \cup {k} |-> IF x = k THEN v ELSE map[x]]

\* the registry after node_id with the given style and resolved overflow was laid out
register_scroll_node(registry, counter, node_id, node, overflow) ==
    IF node.scroll_tag.some /\ is_scroll_container(overflow)
    THEN [overflowing_nodes |->
                Insert(registry.overflowing_nodes, node_id,
                    OverflowingScrollNode(
                        IF node.children.some
                            THEN LayoutRect(LayoutPoint(0, 0), node.children.val)
                            ELSE LayoutRect_zero,
                        ExternalScrollId(counter, PipelineId),
                        node_id,
                        node.scroll_tag.val)),
          tags_to_node_ids |-> Insert(registry.tags_to_node_ids, node.scroll_tag.val, node_id)]
    ELSE registry

----------------------------------------------------------------------------
(* Specification of a layout pass: nodes are laid out one after the other   *)

\* extents in pixels of containers and of the union of a node's children
ContainerExtents == {200}
ChildExtents == {50, 200, 250}

NodeStyles ==
    [overflow_x : OverflowTags,
     overflow_y : OverflowTags,
     size : { LayoutSize(w, h) : w \in ContainerExtents, h \in ContainerExtents },
     children : {None} \cup { Some(LayoutSize(w, h)) : w \in ChildExtents, h \in ChildExtents },
     has_scroll_tag : BOOLEAN]

\* the scroll tag of node n
ScrollTagOf(n) == 100 + n

InitScroll ==
    /\ scrolled = ScrolledNodes_default
    /\ scroll_counter = 0
    /\ file = NoFile
    /\ font = NoFont
    /\ seen = EmptyMap
    /\ IdleBox
    /\ IdleDom
    /\ op = "new"
    /\ arg = <<>>
    /\ ret = <<>>
    /\ calls = 0

LayoutNode ==
    \E style \in NodeStyles :
        LET node_id == calls + 1
            node == [overflow_x |-> style.overflow_x,
                     overflow_y |-> style.overflow_y,
                     size |-> style.size,
                     children |-> style.children,
                     scroll_tag |-> IF style.has_scroll_tag THEN Some(ScrollTagOf(node_id)) ELSE None]
            overflow == resolve_overflow_info(node)
            registry == register_scroll_node(scrolled, scroll_counter, node_id, node, overflow)
        IN  /\ calls < MaxNodes
            /\ scrolled' = registry
            /\ scroll_counter' = IF registry # scrolled THEN scroll_counter + 1 ELSE scroll_counter
            /\ op' = "layout_node"
            /\ arg' = [node_id |-> node_id, node |-> node]
            /\ ret' = overflow
            /\ calls' = calls + 1
            /\ UNCHANGED <<boxVars, domVars, file, font, seen>>

NextScroll == LayoutNode

SpecScroll == InitScroll /\ [][NextScroll]_vars

----------------------------------------------------------------------------
(* Properties of scroll registration *)

\* the node laid out last carries a scroll tag and, on some axis, is Scroll or
\* is Auto with children that exceed the container
ShouldBeRegistered(a) ==
    /\ a.node.scroll_tag.some
    /\ \/ a.node.overflow_x = "Scroll"
       \/ a.node.overflow_y = "Scroll"
       \/ a.node.overflow_x = "Auto" /\ a.node.children.some
            /\ a.node.children.val.width > a.node.size.width
       \/ a.node.overflow_y = "Auto" /\ a.node.children.some
            /\ a.node.children.val.height > a.node.size.height

\* C11: a node is in overflowing_nodes, and its scroll tag in
\* tags_to_node_ids, if and only if it carries a scroll tag and its overflow
\* mode is Scroll, or Auto with a positive measured amount; a node with Auto
\* on both axes and children of height 50 in a container of height 200 is not
\* registered, while its amount is defined and not positive.
C11_ScrollRegistration ==
    op = "layout_node" =>
        /\ (arg.node_id \in DOMAIN scrolled.overflowing_nodes) <=> ShouldBeRegistered(arg)
        /\ (ScrollTagOf(arg.node_id) \in DOMAIN scrolled.tags_to_node_ids) <=> ShouldBeRegistered(arg)
        /\ ShouldBeRegistered(arg) =>
                /\ scrolled.tags_to_node_ids[ScrollTagOf(arg.node_id)] = arg.node_id
                /\ scrolled.overflowing_nodes[arg.node_id].scroll_tag_id = ScrollTagOf(arg.node_id)
        /\ (/\ arg.node.overflow_x = "Auto"
            /\ arg.node.overflow_y = "Auto"
            /\ arg.node.children.some
            /\ arg.node.children.val.height = 50
            /\ arg.node.children.val.width <= 200
            /\ arg.node.size.height = 200) =>
                /\ arg.node_id \notin DOMAIN scrolled.overflowing_nodes
                /\ ret.overflow_y.amount.some
                /\ ValueOf(ret.overflow_y.amount.val) = 0 - 150

\* a tagged node with Auto on both axes whose children fit exactly (amount
\* zero on both axes) was laid out after a node that was registered
C11_Witness ==
    /\ op = "layout_node"
    /\ arg.node_id = 2
    /\ 1 \in DOMAIN scrolled.overflowing_nodes
    /\ arg.node.scroll_tag.some
    /\ arg.node.overflow_x = "Auto"
    /\ arg.node.overflow_y = "Auto"
    /\ arg.node.children = [some |-> TRUE, val |-> [width |-> 200, height |-> 200]]
    /\ 2 \notin DOMAIN scrolled.overflowing_nodes

----------------------------------------------------------------------------
(* Properties of PositionedRectangle *)

\* C1: get_margin_box_width is size.width plus the left and right edges of
\* padding, border and margin; get_margin_box_height is size.height plus
\* their top and bottom edges.
C1_MarginBoxAdditive ==
    /\ op = "get_margin_box_width" =>
            ret = rect.size.width + rect.padding.left + rect.padding.right
                    + rect.border_widths.left + rect.border_widths.right
                    + rect.margin.left + rect.margin.right
    /\ op = "get_margin_box_height" =>
            ret = rect.size.height + rect.padding.top + rect.padding.bottom
                    + rect.border_widths.top + rect.border_widths.bottom
                    + rect.margin.top + rect.margin.bottom

\* the margin-box height of a rectangle with three different non-zero edges
C1_Witness ==
    /\ op = "get_margin_box_height"
    /\ rect.padding.top = 1
    /\ rect.border_widths.bottom = 1
    /\ rect.margin.bottom = 1
    /\ ret = 3

\* C6: get_static_bounds is Some(rectangle at the static offsets with the
\* node's size) exactly for Static and Relative and None exactly for Fixed and
\* Absolute; x_offset and y_offset have no influence on it.
C6_StaticBounds ==
    op = "get_static_bounds" =>
        /\ rect.position.tag \in {"Static", "Relative"} =>
                ret = [some |-> TRUE,
                       val |-> [origin |-> [x |-> rect.position.static_x_offset,
                                            y |-> rect.position.static_y_offset],
                                size |-> rect.size]]
        /\ rect.position.tag \in {"Fixed", "Absolute"} => ret = [some |-> FALSE]
        /\ \A v \in EdgeVals \cup {0} :
                /\ get_static_bounds([rect EXCEPT !.position.x_offset = v]) = ret
                /\ get_static_bounds([rect EXCEPT !.position.y_offset = v]) = ret

\* the static bounds of a Relative rectangle whose offset and static offset differ
C6_Witness ==
    /\ op = "get_static_bounds"
    /\ rect.position.tag = "Relative"
    /\ rect.position.x_offset = 0 - 1
    /\ rect.position.static_x_offset = 1
    /\ ret.some

\* the static bounds of an Absolute rectangle with a non-zero static offset
C6_WitnessAbsolute ==
    /\ op = "get_static_bounds"
    /\ rect.position.tag = "Absolute"
    /\ rect.position.static_y_offset # 0
    /\ ~ret.some

\* C7: get_background_bounds returns the content size grown by padding and
\* border on both sides of each axis, and a PositionInfo of the same variant
\* with x_offset reduced by padding.left + border.left, y_offset reduced by
\* padding.top + border.top and the static offsets unchanged; the margin has
\* no influence; for all four variants.
C7_BackgroundBounds ==
    op = "get_background_bounds" =>
        /\ ret[1].width = rect.size.width + rect.padding.left + rect.padding.right
                            + rect.border_widths.left + rect.border_widths.right
        /\ ret[1].height = rect.size.height + rect.padding.top + rect.padding.bottom
                            + rect.border_widths.top + rect.border_widths.bottom
        /\ ret[2].tag = rect.position.tag
        /\ ret[2].x_offset = rect.position.x_offset - (rect.padding.left + rect.border_widths.left)
        /\ ret[2].y_offset = rect.position.y_offset - (rect.padding.top + rect.border_widths.top)
        /\ ret[2].static_x_offset = rect.position.static_x_offset
        /\ ret[2].static_y_offset = rect.position.static_y_offset
        /\ \A s \in Sides, v \in EdgeVals \cup {0} :
                get_background_bounds([rect EXCEPT !.margin[s] = v]) = ret

\* the background bounds of a Fixed rectangle with left padding and top border
C7_Witness ==
    /\ op = "get_background_bounds"
    /\ rect.position.tag = "Fixed"
    /\ rect.padding.left = 1
    /\ rect.border_widths.top = 1
    /\ ret[2].x_offset = 0 - 1
    /\ ret[2].y_offset = 0 - 1

\* C8 as stated: the margin-box width and height of any rectangle that can
\* be constructed are never negative.
C8_MarginBoxNeverNegative ==
    op \in {"get_margin_box_width", "get_margin_box_height"} => ret >= 0

NonNegativeOffsets(o) == o.top >= 0 /\ o.left >= 0 /\ o.right >= 0 /\ o.bottom >= 0

WellFormed(r) ==
    /\ r.size.width >= 0
    /\ r.size.height >= 0
    /\ NonNegativeOffsets(r.padding)
    /\ NonNegativeOffsets(r.border_widths)
    /\ NonNegativeOffsets(r.margin)

\* C8 amended: the margin-box width and height of a rectangle whose size and
\* whose padding, border and margin edges are all non-negative are not negative.
C8_MarginBoxNonNegativeIfWellFormed ==
    (op \in {"get_margin_box_width", "get_margin_box_height"} /\ WellFormed(rect)) => ret >= 0

\* the margin-box width of a well-formed rectangle with a margin and a size
C8_Witness ==
    /\ op = "get_margin_box_width"
    /\ WellFormed(rect)
    /\ rect.margin.left > 0
    /\ rect.margin.right > 0
    /\ rect.size.width > 0
    /\ ret = 3

----------------------------------------------------------------------------
(* Properties of DirectionalOverflowInfo *)

\* C4 as stated: for every variant with amount Some(a), is_negative is true
\* whenever a is non-positive, a = 0 included, and false when a > 0.
C4_IsNegativeIffNonPositive ==
    (op = "is_negative" /\ ovf.amount.some) => (ret = (ValueOf(ovf.amount.val) <= 0))

\* C5: an amount of None is distinct from a measured zero: with amount None
\* is_none is true, get_amount is None and is_negative is true; with amount
\* Some(a), zero included, is_none is false and get_amount is Some(a); the
\* default value is Auto with amount None.
C5_NoneDistinctFromZero ==
    /\ op = "default" => ovf = [tag |-> "Auto", amount |-> [some |-> FALSE]]
    /\ ovf.tag \in OverflowTags
    /\ op = "is_none" => ret = ~ovf.amount.some
    /\ op = "get_amount" => ret = ovf.amount
    /\ (op = "is_negative" /\ ~ovf.amount.some) => ret = TRUE

\* get_amount on a Hidden value whose amount is a measured (positive) zero
C5_Witness ==
    /\ op = "get_amount"
    /\ ovf.tag = "Hidden"
    /\ ovf.amount.some
    /\ ovf.amount.val = [neg |-> FALSE, mag |-> 0]
    /\ ret.some

----------------------------------------------------------------------------
(* Properties of InlineTextLayout *)

LineIdx(l) == 1..Len(l.lines)
LeftOf(l, i) == l.lines[i].bounds.origin.x
RightOf(l, i) == l.lines[i].bounds.origin.x + l.lines[i].bounds.size.width
TopOf(l, i) == l.lines[i].bounds.origin.y
BottomOf(l, i) == l.lines[i].bounds.origin.y + l.lines[i].bounds.size.height

\* edges of the bounding box of a non-empty layout, stated without the fold
BBoxLeft(l) == CHOOSE v \in {LeftOf(l, i) : i \in LineIdx(l)} : \A i \in LineIdx(l) : v <= LeftOf(l, i)
BBoxRight(l) == CHOOSE v \in {RightOf(l, i) : i \in LineIdx(l)} : \A i \in LineIdx(l) : v >= RightOf(l, i)
BBoxTop(l) == CHOOSE v \in {TopOf(l, i) : i \in LineIdx(l)} : \A i \in LineIdx(l) : v <= TopOf(l, i)
BBoxBottom(l) == CHOOSE v \in {BottomOf(l, i) : i \in LineIdx(l)} : \A i \in LineIdx(l) : v >= BottomOf(l, i)

\* every value is a multiple of Scale / 2^calls: no fixed-point product was rounded
ExactArithmetic ==
    \A i \in LineIdx(layout) :
        /\ LeftOf(layout, i) % Pow2(MaxAligns - calls) = 0
        /\ TopOf(layout, i) % Pow2(MaxAligns - calls) = 0

\* twice the factor of an alignment value
TwiceHorz(a) == CASE a = "Left" -> 0 [] a = "Center" -> 1 [] a = "Right" -> 2
TwiceVert(a) == CASE a = "Top" -> 0 [] a = "Center" -> 1 [] a = "Bottom" -> 2

\* the gap of line i against the bounding box of all lines of l
Gap(l, i) == (LeftOf(l, i) - BBoxLeft(l)) + (BBoxRight(l) - RightOf(l, i))

\* C2: align_children_horizontal(a) moves the origin.x of every line by
\* m * gap, gap being the line's left distance plus right distance to the
\* bounding box the lines had before the call, m = 0 / 0.5 / 1 for Left /
\* Center / Right; Left changes no line at all.
C2_HorizontalShift ==
    op = "align_children_horizontal" =>
        /\ Len(layout.lines) = Len(pre.lines)
        /\ \A i \in LineIdx(pre) :
                2 * (LeftOf(layout, i) - LeftOf(pre, i)) = TwiceHorz(arg[1]) * Gap(pre, i)
        /\ arg[1] = "Left" => layout = pre

\* a Center call on two lines that moved a line which did not start at the
\* left edge of the bounding box
C2_Witness ==
    /\ op = "align_children_horizontal"
    /\ arg[1] = "Center"
    /\ Len(pre.lines) = 2
    /\ \E i \in LineIdx(pre) :
            /\ LeftOf(pre, i) > BBoxLeft(pre)
            /\ LeftOf(layout, i) # LeftOf(pre, i)

\* C3: align_children_vertical_in_parent_bounds(parent_size, v) adds the same
\* scalar to the origin.y of every line: 0 for Top, half of (parent height -
\* bounding box height) for Center, all of it for Bottom, independent of the
\* y origin the block had.
C3_VerticalShift ==
    op = "align_children_vertical_in_parent_bounds" =>
        /\ Len(layout.lines) = Len(pre.lines)
        /\ \A i \in LineIdx(pre) :
                2 * (TopOf(layout, i) - TopOf(pre, i)) =
                    TwiceVert(arg[2]) * (arg[1].height - (BBoxBottom(pre) - BBoxTop(pre)))

\* a Center call that moved a block of two lines whose top edge was not at 0
C3_Witness ==
    /\ op = "align_children_vertical_in_parent_bounds"
    /\ arg[2] = "Center"
    /\ Len(pre.lines) = 2
    /\ BBoxTop(pre) > 0
    /\ TopOf(layout, 1) # TopOf(pre, 1)
    /\ TopOf(pre, 1) # TopOf(pre, 2)

\* C9: whatever alignment calls came before, get_bounds returns the union of
\* the current line rectangles, get_leading the current origin.x of the first
\* line and get_trailing the current right edge of the first line.
C9_QueriesUseCurrentLines ==
    Len(layout.lines) > 0 =>
        /\ op = "get_bounds" =>
                /\ ret.origin.x = BBoxLeft(layout)
                /\ ret.origin.y = BBoxTop(layout)
                /\ ret.origin.x + ret.size.width = BBoxRight(layout)
                /\ ret.origin.y + ret.size.height = BBoxBottom(layout)
        /\ op = "get_leading" => ret = LeftOf(layout, 1)
        /\ op = "get_trailing" => ret = RightOf(layout, 1)

\* get_bounds called after an alignment call that changed the bounding box,
\* on a layout whose first line is not the whole bounding box
C9_Witness ==
    /\ op = "get_bounds"
    /\ calls > 0
    /\ Len(layout.lines) = 2
    /\ ret # get_bounds(pre)
    /\ ret # layout.lines[1].bounds

\* C10: on a layout without lines get_bounds returns the zero rectangle,
\* get_leading and get_trailing return 0, and both alignment calls return
\* and leave the layout without lines.
C10_EmptyLayout ==
    /\ (Len(layout.lines) = 0 /\ op = "get_bounds") =>
            ret = [origin |-> [x |-> 0, y |-> 0], size |-> [width |-> 0, height |-> 0]]
    /\ (Len(layout.lines) = 0 /\ op \in {"get_leading", "get_trailing"}) => ret = 0
    /\ (Len(pre.lines) = 0 /\ op \in {"align_children_horizontal",
                                       "align_children_vertical_in_parent_bounds"}) =>
            layout.lines = <<>>

\* get_bounds on an empty layout after a Right and a Bottom alignment call
C10_Witness ==
    /\ Len(layout.lines) = 0
    /\ op = "get_bounds"
    /\ calls = 2


----------------------------------------------------------------------------
(* Properties of text shaping *)

\* the glyph indices of the glyphs of a sequence of infos
GlyphIndices(infos) == [i \in 1..Len(infos) |-> infos[i].glyph.glyph_index]

\* the advances of a shaped run
Advances(infos) == [i \in 1..Len(infos) |-> <<infos[i].size.x, infos[i].size.y>>]

\* C12 as stated: if GSUB or GPOS fails, ParsedFont::shape returns a run with
\* zero glyph records; if both succeed it returns exactly one record for every
\* glyph that leaves the positioning stage, in the same order.
C12_AllOrNothing ==
    op = "shape" =>
        IF ret.stage \in {"gsub_failed", "gpos_failed"}
        THEN ~ret.panic /\ ret.val.infos = <<>>
        ELSE /\ ~ret.panic
             /\ Len(ret.val.infos) = Len(ret.positioned)
             /\ GlyphIndices(ret.val.infos) = GlyphIndices(ret.positioned)

\* positions of the text whose character is not in the set of selectors
BasePositions(text, selectors) == {i \in 1..Len(text) : text[i] \notin selectors}

\* the position of the text the k-th mapped glyph comes from
BasePositionOf(text, selectors, k) ==
    CHOOSE i \in BasePositions(text, selectors) :
        Cardinality({j \in BasePositions(text, selectors) : j <= i}) = k

\* one glyph per character outside the set of selectors, in input order, none
\* for a selector, each carrying the selector that immediately follows it
MappedPerBase(text, selectors, mapped) ==
    /\ Len(mapped) = Cardinality(BasePositions(text, selectors))
    /\ \A k \in 1..Len(mapped) :
        LET i == BasePositionOf(text, selectors, k)
        IN /\ mapped[k].unicodes = <<text[i]>>
           /\ mapped[k].glyph_index = lookup_glyph_index(seen.font0, text[i])
           /\ mapped[k].variation =
                IF i < Len(text) /\ text[i + 1] \in selectors THEN Some(text[i + 1]) ELSE None

\* every selector of the text directly follows a character that is not one
EverySelectorAttached(text, selectors) ==
    \A i \in 1..Len(text) :
        text[i] \in selectors => (i > 1 /\ text[i - 1] \notin selectors)

C14_LookupGlyphIndex ==
    op = "lookup_glyph_index" =>
        LET r == font.cmap_subtable[arg]
        IN /\ (r.ok /\ r.val.some) => ret = r.val.val
           /\ (r.ok /\ ~r.val.some) => ret = 0
           /\ ~r.ok => ret = 0

\* a character whose cmap lookup fails has been looked up
C14_Witness ==
    /\ op = "lookup_glyph_index"
    /\ ~font.cmap_subtable[arg].ok
    /\ ret = 0

\* C15 as stated: ParsedFont::shape returns a value for every input on every
\* constructed font, also when an advance lookup fails; shaping never panics.
C15_ShapeNeverPanics ==
    op = "shape" => ~ret.panic

----------------------------------------------------------------------------
(* Properties of font reading *)

\* the ten tables font construction is said to require
RequiredTables == {"head", "hhea", "vhea", "maxp", "hmtx", "vmtx", "cmap", "GSUB", "GPOS", "GDEF"}

Readable(t) == file.container /\ file.face /\ file.tables[t] = "ok"

\* C17 as stated: from_bytes returns None whenever one of head, hhea, vhea,
\* maxp, hmtx, vmtx, cmap, GSUB, GPOS, GDEF is absent or unreadable, and a font
\* only when all ten are present and readable.
C17_AllTenRequired ==
    op = "from_bytes" =>
        (ret.some <=> \A t \in RequiredTables : Readable(t))

\* the font object the metrics are read through can be built: cmap, maxp and
\* hhea are readable and hmtx is present
FontObjectReadable ==
    /\ Readable("cmap")
    /\ Readable("maxp")
    /\ Readable("hhea")
    /\ file.tables["hmtx"] # "absent"

\* the head and hhea fields of the metrics are those of the font
HeadAndHheaPopulated ==
    /\ ret.font_flags = HeadTable(file).flags
    /\ ret.x_max = HeadTable(file).x_max
    /\ ret.ascender = HheaTable(file).ascender
    /\ ret.descender = HheaTable(file).descender
    /\ ret.num_h_metrics = HheaTable(file).num_h_metrics

\* exactly the optional OS/2 fields the font lacks are absent
Os2FieldsAsInFont ==
    /\ ret.s_typo_ascender.some <=> (Readable("OS/2") /\ "version0" \in file.os2_groups)
    /\ ret.ul_code_page_range1.some <=> (Readable("OS/2") /\ "version1" \in file.os2_groups)
    /\ ret.sx_height.some <=> (Readable("OS/2") /\ "version2to4" \in file.os2_groups)
    /\ ret.us_lower_optical_point_size.some <=> (Readable("OS/2") /\ "version5" \in file.os2_groups)

\* C18 as stated: get_font_metrics returns the default metrics when the
\* container, the face, head or hhea cannot be read; when head and hhea are
\* readable the head and hhea fields are populated from the font and exactly
\* the missing OS/2 optional fields are absent.
C18_PopulatedIfHeadAndHhea ==
    op = "get_font_metrics" =>
        IF Readable("head") /\ Readable("hhea")
        THEN HeadAndHheaPopulated /\ Os2FieldsAsInFont
        ELSE ret = FontMetrics_default

\* C18 amended: get_font_metrics returns the default metrics when the
\* container, the face, the font object (cmap, maxp, hhea, hmtx) or head
\* cannot be read; otherwise the head and hhea fields are populated from the
\* font and exactly the missing OS/2 optional fields are absent.
C18_PopulatedIfFontObjectAndHead ==
    op = "get_font_metrics" =>
        IF FontObjectReadable /\ Readable("head")
        THEN HeadAndHheaPopulated /\ Os2FieldsAsInFont
        ELSE ret = FontMetrics_default

\* metrics of a readable font whose OS/2 table has version 0 but not version 1
C18_Witness ==
    /\ op = "get_font_metrics"
    /\ FontObjectReadable /\ Readable("head") /\ Readable("OS/2")
    /\ "version0" \in file.os2_groups
    /\ "version1" \notin file.os2_groups
    /\ ret.s_typo_ascender.some
    /\ ~ret.ul_code_page_range1.some

\* C19: the units_per_em of the metrics is greater than zero: the head
\* table's value when that is nonzero, 1000 when head claims zero or the font
\* cannot be read.
C19_UnitsPerEmPositive ==
    op = "get_font_metrics" =>
        /\ ret.units_per_em > 0
        /\ IF FontObjectReadable /\ Readable("head") /\ file.units_per_em # 0
           THEN ret.units_per_em = file.units_per_em
           ELSE ret.units_per_em = 1000

\* metrics of a readable font whose head table claims zero units per em
C19_Witness ==
    /\ op = "get_font_metrics"
    /\ FontObjectReadable /\ Readable("head")
    /\ file.units_per_em = 0
    /\ ret.units_per_em = 1000


----------------------------------------------------------------------------
(* Properties of script and language estimation *)

\* the text has no character of any script
NoScriptChars == \A i \in 1..Len(arg.chars) : arg.chars[i] = "Common"

\* 'latn'
LatinScriptTag == 1818326126

\* 'ENG '
EnglishLangTag == 1162757920

\* C20: estimate_script_and_language returns a pair of tags for every text
\* and never fails; when detection yields no result the pair is the Latin
\* script tag 'latn' and the English language tag.
C20_DefaultLatinEnglish ==
    op = "estimate_script_and_language" =>
        /\ ~ret.panic
        /\ ret.val[1] \in Nat
        /\ ret.val[2] \in Nat
        /\ ~detect(arg).some => ret.val = <<LatinScriptTag, EnglishLangTag>>

\* a text without a character of any script has been estimated
C20_Witness ==
    /\ op = "estimate_script_and_language"
    /\ Len(arg.chars) > 0
    /\ NoScriptChars
    /\ ret.val = <<LatinScriptTag, EnglishLangTag>>


\* 'kana'
KanaScriptTag == 1801547361

\* 'hani'
HaniScriptTag == 1751215721

\* the two families share a tag in the table: they are the same family, or
\* Hiragana and Katakana
MayShareTag(s1, s2) == s1 = s2 \/ {s1, s2} = {"Hiragana", "Katakana"}

\* C21: the script tag is the entry of a fixed table for the detected family,
\* whatever the text and the language; the table has an entry for each of the
\* 24 families, Hiragana and Katakana both map to 'kana', and every other
\* pair of distinct families maps to distinct tags.
C21_FixedScriptTable ==
    /\ (op = "estimate_script_and_language" /\ detect(arg).some) =>
            /\ ~ret.panic
            /\ ret.val[1] = ScriptTagOf[detect(arg).val.script]
            /\ detect(arg).val.script \in {"Hiragana", "Katakana"} => ret.val[1] = KanaScriptTag
    /\ DOMAIN ScriptTagOf = ScriptSet
    /\ Cardinality(ScriptSet) = 24
    /\ \A s1, s2 \in ScriptSet : ScriptTagOf[s1] = ScriptTagOf[s2] <=> MayShareTag(s1, s2)

\* a text of Katakana characters has been estimated
C21_Witness ==
    /\ op = "estimate_script_and_language"
    /\ detect(arg).some
    /\ detect(arg).val.script = "Katakana"
    /\ ret.val[1] = KanaScriptTag

\* C25 as stated: text whose detected family is Mandarin is given the CJK
\* Ideographic script tag 'hani'.
C25_MandarinIsHani ==
    (op = "estimate_script_and_language" /\ detect(arg).some
        /\ detect(arg).val.script = "Mandarin") =>
            ret.val[1] = HaniScriptTag

----------------------------------------------------------------------------
(* Further properties of InlineTextLayout *)

\* C23 as stated: after align_children_horizontal(Right) on a non-empty
\* layout the right edge of every line equals the right edge of the bounding
\* box the lines had before the call, wherever the lines started.
C23_RightEdgesOnBoundingBox ==
    (op = "align_children_horizontal" /\ arg[1] = "Right" /\ Len(pre.lines) > 0) =>
        \A i \in LineIdx(layout) : RightOf(layout, i) = BBoxRight(pre)

\* the line differs from the line it was at most in the named coordinate
SameButOrigin(now, was, axis) ==
    /\ now.word_start = was.word_start
    /\ now.word_end = was.word_end
    /\ now.bounds.size = was.bounds.size
    /\ axis = "x" => now.bounds.origin.y = was.bounds.origin.y
    /\ axis = "y" => now.bounds.origin.x = was.bounds.origin.x

\* word ranges are well-formed and contiguous across the lines
ContiguousWords(l) ==
    /\ \A i \in LineIdx(l) : l.lines[i].word_start <= l.lines[i].word_end
    /\ \A i \in LineIdx(l) : i > 1 => l.lines[i].word_start = l.lines[i - 1].word_end

\* C24: align_children_horizontal changes nothing but the origin.x of lines
\* and align_children_vertical_in_parent_bounds nothing but the origin.y:
\* number and order of lines, sizes and word ranges are kept, so the word
\* ranges stay well-formed and contiguous after any sequence of calls.
C24_AlignmentFrame ==
    /\ op = "align_children_horizontal" =>
            /\ Len(layout.lines) = Len(pre.lines)
            /\ \A i \in LineIdx(pre) : SameButOrigin(layout.lines[i], pre.lines[i], "x")
    /\ op = "align_children_vertical_in_parent_bounds" =>
            /\ Len(layout.lines) = Len(pre.lines)
            /\ \A i \in LineIdx(pre) : SameButOrigin(layout.lines[i], pre.lines[i], "y")
    /\ ContiguousWords(layout)

\* a second alignment call, horizontal, that moved a line of a two-line layout
C24_Witness ==
    /\ op = "align_children_horizontal"
    /\ calls = 2
    /\ Len(layout.lines) = 2
    /\ \E i \in LineIdx(pre) : LeftOf(layout, i) # LeftOf(pre, i)
    /\ layout.lines[2].word_start = layout.lines[1].word_end
    /\ layout.lines[2].word_start > 0

----------------------------------------------------------------------------
(* Dom (src/dom.rs).  The arena of id_tree is not part of the sources at    *)
(* hand; it is modelled as the index tree its use in dom.rs asks for: a     *)
(* NodeId is the position of a node in the arena, a node knows its parent   *)
(* and its children in order, and nodes are never removed.                  *)

\* Arena::new()
Arena_new == <<>>

\* Arena::new_node: the node is added without parent or children, its NodeId
\* is the length of the arena returned
Arena_new_node(arena, data) ==
    Append(arena, [parent |-> None, children |-> <<>>, data |-> data])

\* the NodeId handed out by the new_node call that returned arena
NodeId_of_new(arena) == Len(arena)

\* NodeId::append: new_child becomes the last child of self
NodeId_append(self, new_child, arena) ==
    [arena EXCEPT ![new_child].parent = Some(self),
                  ![self].children = Append(@, new_child)]

\* NodeId::children: the children of self, first to last
NodeId_children(self, arena) == arena[self].children

CallbackList_new == [callbacks |-> EmptyMap]

CallbackList_special_clone(self) == [callbacks |-> self.callbacks]

NodeData_new(node_type) ==
    [node_type |-> node_type,
     id |-> None,
     classes |-> <<>>,
     events |-> CallbackList_new,
     tag |-> None]

NodeData_special_clone(self) ==
    [node_type |-> self.node_type,
     id |-> self.id,
     classes |-> self.classes,
     events |-> CallbackList_special_clone(self.events),
     tag |-> self.tag]

Dom_new(node_type) ==
    LET arena == Arena_new_node(Arena_new, NodeData_new(node_type))
        root == NodeId_of_new(arena)
    IN  [arena |-> arena, root |-> root, current_root |-> root, last |-> root]

Dom_children(self) == NodeId_children(self.root, self.arena)

\* the loop of add_child over the children chs of child that are left
RECURSIVE add_child_for(_, _, _)
add_child_for(self, child, chs) ==
    IF chs = <<>> THEN self
    ELSE LET ch == Head(chs)
             grown == Arena_new_node(self.arena, NodeData_special_clone(child.arena[ch].data))
             new_last == NodeId_of_new(grown)
         IN  add_child_for([self EXCEPT !.arena = NodeId_append(self.last, new_last, grown),
                                        !.last = new_last],
                           child, Tail(chs))

Dom_add_child(self, child) == add_child_for(self, child, Dom_children(child))

\* add_sibling that leaves the new node out of the tree
Dom_add_sibling_unlinked(self, sibling) ==
    LET grown == Arena_new_node(self.arena, NodeData_special_clone(sibling.arena[sibling.root].data))
        new_sibling == NodeId_of_new(grown)
    IN  [self EXCEPT !.arena = grown, !.current_root = new_sibling]

Dom_add_sibling(self, sibling) ==
    LET grown == Arena_new_node(self.arena, NodeData_special_clone(sibling.arena[sibling.root].data))
        new_sibling == NodeId_of_new(grown)
    IN  [self EXCEPT !.arena = NodeId_append(self.current_root, new_sibling, grown),
                     !.current_root = new_sibling]

Dom_id(self, name) == [self EXCEPT !.arena[self.last].data.id = Some(name)]

Dom_class(self, name) == [self EXCEPT !.arena[self.last].data.classes = Append(@, name)]

\* line 191 of event: the callback is inserted
event_insert(self, on, callback) ==
    [self EXCEPT !.arena[self.last].data.events.callbacks = Insert(@, on, callback)]

\* line 192 of event: the tag is set from the value read from NODE_ID
event_tag(self, read) ==
    [self EXCEPT !.arena[self.last].data.tag = Some(<<read, 0>>)]

\* event that does not advance NODE_ID
Dom_event_same_id(self, on, callback, counter) ==
    [dom |-> event_tag(event_insert(self, on, callback), counter),
     NODE_ID |-> counter]

\* event run alone, NODE_ID being counter when it starts: the Dom returned and
\* NODE_ID afterwards.  NODE_ID is a u64; the calls made here stay far from
\* the value at which the addition overflows.
Dom_event(self, on, callback, counter) ==
    [dom |-> event_tag(event_insert(self, on, callback), counter),
     NODE_ID |-> counter + 1]

----------------------------------------------------------------------------
(* Specification of Dom on one thread: Dom values are created and, by the   *)
(* builder methods, moved into the call and back out of it                  *)

NodeTypes == {"Div", "Button"}
IdNames == {"main"}
ClassNames == {"c"}
OnEvents == {"MouseOver", "MouseDown"}
Callbacks == {"Sync"}

DomSlots == 1..MaxDoms

\* the slots that hold a Dom
Held == { v \in DomSlots : doms[v].some }

InitDom ==
    /\ NODE_ID = 0
    /\ doms = [v \in DomSlots |-> None]
    /\ threads = EmptyMap
    /\ IdleBox
    /\ scrolled = ScrolledNodes_default
    /\ scroll_counter = 0
    /\ file = NoFile
    /\ font = NoFont
    /\ seen = EmptyMap
    /\ op = "init"
    /\ arg = <<>>
    /\ ret = <<>>
    /\ calls = 0

\* one call of a builder method on the Dom in slot v, other being the slots
\* whose Dom is moved into the call and dropped by it
Called(name, v, other, input, result) ==
    /\ calls < MaxDomCalls
    /\ doms' = [w \in DomSlots |-> IF w = v THEN Some(result)
                                   ELSE IF w \in other THEN None ELSE doms[w]]
    /\ op' = name
    /\ arg' = input
    /\ ret' = result
    /\ calls' = calls + 1
    /\ UNCHANGED <<boxVars, scrolled, scroll_counter, file, font, seen, threads>>

DomNew ==
    \E v \in DomSlots, node_type \in NodeTypes :
        /\ v \notin Held
        /\ \A w \in DomSlots : w < v => w \in Held
        /\ Called("new", v, {}, [node_type |-> node_type], Dom_new(node_type))
        /\ UNCHANGED NODE_ID

DomId ==
    \E v \in Held, name \in IdNames :
        /\ Called("id", v, {}, [self |-> doms[v].val, id |-> name], Dom_id(doms[v].val, name))
        /\ UNCHANGED NODE_ID

DomClass ==
    \E v \in Held, name \in ClassNames :
        /\ Called("class", v, {}, [self |-> doms[v].val, class |-> name],
                  Dom_class(doms[v].val, name))
        /\ UNCHANGED NODE_ID

DomEvent ==
    \E v \in Held, on \in OnEvents, callback \in Callbacks :
        \E r \in {Dom_event(doms[v].val, on, callback, NODE_ID)} :
            /\ Called("event", v, {},
                      [self |-> doms[v].val, on |-> on, callback |-> callback, NODE_ID |-> NODE_ID],
                      r.dom)
            /\ NODE_ID' = r.NODE_ID

DomAddChild ==
    \E v \in Held, w \in Held :
        /\ v # w
        /\ Called("add_child", v, {w}, [self |-> doms[v].val, child |-> doms[w].val],
                  Dom_add_child(doms[v].val, doms[w].val))
        /\ UNCHANGED NODE_ID

DomAddSibling ==
    \E v \in Held, w \in Held :
        /\ v # w
        /\ Called("add_sibling", v, {w}, [self |-> doms[v].val, sibling |-> doms[w].val],
                  Dom_add_sibling(doms[v].val, doms[w].val))
        /\ UNCHANGED NODE_ID

NextDom == DomNew \/ DomId \/ DomClass \/ DomEvent \/ DomAddChild \/ DomAddSibling

SpecDom == InitDom /\ [][NextDom]_vars

----------------------------------------------------------------------------
(* Specification of Dom::event called from several threads, each on a Dom   *)
(* of its own.  NODE_ID is a static mut that event reads (line 192) and     *)
(* then reads and writes again (line 193) without synchronisation, so the   *)
(* steps of the calls interleave; the second read may also be served from   *)
(* the register the first read filled.                                      *)

\* the threads of the program that build a Dom
ThreadIds == {"main", "worker"}

InitDomRace ==
    /\ NODE_ID = 0
    /\ doms = EmptyMap
    /\ threads = [t \in ThreadIds |->
                    [pc |-> "call", dom |-> Dom_new("Div"), reg |-> 0, ids |-> <<>>]]
    /\ IdleBox
    /\ scrolled = ScrolledNodes_default
    /\ scroll_counter = 0
    /\ file = NoFile
    /\ font = NoFont
    /\ seen = EmptyMap
    /\ op = "init"
    /\ arg = <<>>
    /\ ret = <<>>
    /\ calls = 0

\* lines 191 and 192: thread t inserts the callback and tags its node with the
\* value it reads from NODE_ID
EventTag(t) ==
    \E on \in OnEvents, callback \in Callbacks :
        /\ threads[t].pc = "call"
        /\ Len(threads[t].ids) < MaxEvents
        /\ threads' = [threads EXCEPT ![t] =
                [pc |-> "load",
                 dom |-> event_tag(event_insert(threads[t].dom, on, callback), NODE_ID),
                 reg |-> NODE_ID,
                 ids |-> Append(threads[t].ids, NODE_ID)]]
        /\ op' = "event"
        /\ arg' = [thread |-> t, on |-> on, callback |-> callback]
        /\ ret' = <<>>
        /\ UNCHANGED <<boxVars, scrolled, scroll_counter, file, font, seen, NODE_ID, doms, calls>>

\* line 193, the read of NODE_ID += 1
EventLoad(t) ==
    \E read \in {NODE_ID, threads[t].reg} :
        /\ threads[t].pc = "load"
        /\ threads' = [threads EXCEPT ![t].pc = "store", ![t].reg = read]
        /\ UNCHANGED <<boxVars, scrolled, scroll_counter, file, font, seen, NODE_ID, doms,
                       op, arg, ret, calls>>

\* line 193, the write of NODE_ID += 1; the call returns the Dom
EventStore(t) ==
    /\ threads[t].pc = "store"
    /\ NODE_ID' = threads[t].reg + 1
    /\ threads' = [threads EXCEPT ![t].pc = "call"]
    /\ op' = "event"
    /\ arg' = [thread |-> t]
    /\ ret' = threads[t].dom
    /\ calls' = calls + 1
    /\ UNCHANGED <<boxVars, scrolled, scroll_counter, file, font, seen, doms>>

NextDomRace == \E t \in ThreadIds : EventTag(t) \/ EventLoad(t) \/ EventStore(t)

SpecDomRace == InitDomRace /\ [][NextDomRace]_vars

----------------------------------------------------------------------------
(* Properties of Dom *)

NodeIds(dom) == 1..Len(dom.arena)

\* the elements of a sequence, as a set
Elems(seq) == { seq[i] : i \in 1..Len(seq) }

\* copy maps the nodes of the Dom from onto nodes of the Dom to that the
\* Dom before did not have yet, keeping their data and the relations among them
IsCopy(copy, from, before, to) ==
    /\ \A m, n \in NodeIds(from) : m # n => copy[m] # copy[n]
    /\ \A n \in NodeIds(from) :
        /\ copy[n] \in NodeIds(to) \ NodeIds(before)
        /\ to.arena[copy[n]].data = from.arena[n].data
        /\ Len(to.arena[copy[n]].children) = Len(from.arena[n].children)
        /\ \A i \in 1..Len(from.arena[n].children) :
            to.arena[copy[n]].children[i] = copy[from.arena[n].children[i]]
        /\ from.arena[n].parent.some =>
            to.arena[copy[n]].parent = Some(copy[from.arena[n].parent.val])

\* C27: parent.add_child(child) adds the whole child tree to the parent: the
\* node count grows by the node count of child, every node of child (its root
\* included) has a copy with the same node type, id, classes, callbacks and
\* tag, the copy of the child's root is a child of a node the parent had,
\* and the copies are related to each other as the nodes of child are
C27_WholeChildTreeAdded ==
    op = "add_child" =>
        /\ Len(ret.arena) = Len(arg.self.arena) + Len(arg.child.arena)
        /\ \E copy \in [NodeIds(arg.child) -> NodeIds(ret)] :
            /\ IsCopy(copy, arg.child, arg.self, ret)
            /\ ret.arena[copy[arg.child.root]].parent.some
            /\ ret.arena[copy[arg.child.root]].parent.val \in NodeIds(arg.self)

\* node n of the arena is root or has root among its first fuel ancestors
RECURSIVE DescendsFrom(_, _, _, _)
DescendsFrom(arena, root, n, fuel) ==
    \/ n = root
    \/ /\ fuel > 0
       /\ arena[n].parent.some
       /\ arena[n].parent.val \in 1..Len(arena)
       /\ DescendsFrom(arena, root, arena[n].parent.val, fuel - 1)

\* the nodes that list n among their children, once for each time they do
ListedBy(arena, n) ==
    { <<m, i>> \in (1..Len(arena)) \X (1..Len(arena)) :
        i <= Len(arena[m].children) /\ arena[m].children[i] = n }

\* the arena of dom is one tree rooted at dom.root
OneTree(dom) ==
    /\ ~dom.arena[dom.root].parent.some
    /\ ListedBy(dom.arena, dom.root) = {}
    /\ \A n \in NodeIds(dom) \ {dom.root} :
        /\ dom.arena[n].parent.some
        /\ \E i \in 1..Len(dom.arena) : ListedBy(dom.arena, n) = {<<dom.arena[n].parent.val, i>>}
        /\ DescendsFrom(dom.arena, dom.root, n, Len(dom.arena))

\* the two Doms have the same nodes in the same relations and the same
\* root, current_root and last
SameShape(now, was) ==
    /\ Len(now.arena) = Len(was.arena)
    /\ now.root = was.root
    /\ now.current_root = was.current_root
    /\ now.last = was.last
    /\ \A n \in NodeIds(was) :
        /\ now.arena[n].parent = was.arena[n].parent
        /\ now.arena[n].children = was.arena[n].children

\* C28: in every Dom built by new, id, class, event, add_child and
\* add_sibling, root, current_root and last are nodes of the arena and the
\* arena is one tree rooted at root; new yields one node that is root,
\* current_root and last; add_sibling adds one node and makes it current_root;
\* id, class and event leave the nodes, their relations and the three ids alone
C28_OneTreeRootedAtRoot ==
    /\ \A v \in Held :
        /\ {doms[v].val.root, doms[v].val.current_root, doms[v].val.last} \subseteq NodeIds(doms[v].val)
        /\ OneTree(doms[v].val)
    /\ op = "new" =>
        /\ Len(ret.arena) = 1
        /\ ret.root = ret.current_root
        /\ ret.root = ret.last
    /\ op = "add_sibling" =>
        /\ Len(ret.arena) = Len(arg.self.arena) + 1
        /\ ret.current_root \in NodeIds(ret) \ NodeIds(arg.self)
        /\ ret.root = arg.self.root
        /\ ret.last = arg.self.last
    /\ op \in {"id", "class", "event"} => SameShape(ret, arg.self)

\* add_sibling was called on a Dom that a sibling had been added to before
C28_Witness ==
    /\ op = "add_sibling"
    /\ Len(ret.arena) = 3
    /\ ret.current_root # ret.root
    /\ ret.arena[ret.current_root].parent.val # ret.root
    /\ \E v \in Held : doms[v].val = ret

\* the nodes of dom that carry a tag
Tagged(dom) == { n \in NodeIds(dom) : dom.arena[n].data.tag.some }

\* the nodes of dom that have a callback registered
WithCallback(dom) == { n \in NodeIds(dom) : DOMAIN dom.arena[n].data.events.callbacks # {} }

\* C26: event sets the tag of the last node to (NODE_ID, 0), replacing the tag
\* it had, and then increases NODE_ID by one; in every Dom built on one thread
\* from moved Dom values no two nodes of the arena carry the same tag, and a
\* node carries a tag exactly when it has a callback registered
C26_TagsDistinctPerArena ==
    /\ op = "event" =>
        /\ ret.arena[arg.self.last].data.tag = Some(<<arg.NODE_ID, 0>>)
        /\ ret.last = arg.self.last
        /\ NODE_ID = arg.NODE_ID + 1
    /\ \A v \in Held :
        /\ \A m, n \in Tagged(doms[v].val) :
            m # n => doms[v].val.arena[m].data.tag # doms[v].val.arena[n].data.tag
        /\ Tagged(doms[v].val) = WithCallback(doms[v].val)

\* a Dom whose node had got a tag from event was added to a Dom whose node had
\* got one too
C26_Witness ==
    /\ op = "add_sibling"
    /\ Cardinality(Tagged(ret)) = 2
    /\ Tagged(arg.sibling) # {}
    /\ \E v \in Held : doms[v].val = ret

\* the event calls made so far, as thread and number of the call in it
EventCalls == { <<t, i>> \in ThreadIds \X (1..MaxEvents) : i <= Len(threads[t].ids) }

\* C22: however the event calls of the program interleave, no two of them
\* obtain the same id from NODE_ID and, once all calls made have returned,
\* NODE_ID has been increased once for each of them
C22_EventCallsAtomic ==
    /\ \A c, e \in EventCalls :
        c # e => threads[c[1]].ids[c[2]] # threads[e[1]].ids[e[2]]
    /\ (\A t \in ThreadIds : threads[t].pc = "call") => NODE_ID = calls

====
